---- MODULE Spec2Model ----
(***************************************************************************)
(* Model of the meeting scrapers of city-scrapers-san-diego: the Chula     *)
(* Vista JSON-calendar mixin, the National City table mixin, the Tulsa     *)
(* City Council spider and the San Diego City Council spider.              *)
(*                                                                         *)
(* Text is modelled as a sequence of tokens.  A token is an atomic piece   *)
(* of a string; concatenation is \o, "x in text" is a contiguous           *)
(* sub-sequence test, startswith looks at the leading tokens, lower() maps *)
(* every token through Lower.  A datetime is <<year, month, day, hour,     *)
(* minute>>; Python's None is NoneDT for datetimes and NoneS for strings.  *)
(***************************************************************************)
EXTENDS Integers, Sequences, FiniteSets, TLC

VARIABLES spider,    \* the spider instance of this crawl (its class attributes)
          library,   \* what the library does with a record whose start is null
          now,       \* the current instant (a datetime)
          pc,        \* "idle": the engine waits; "yielded": a callback has just run;
                     \* "reparsed": a callback has run again; "load": modules load
          cb,        \* the callback that ran last, with the response it was given
          out,       \* what the last callback yielded, in order (records and requests)
          raised,    \* the last callback ended with an exception
          sched,     \* requests issued and not yet answered
          first,     \* a remembered earlier run of a callback, with what it yielded
          namespace, \* the classes bound in the spider modules' globals
          decl,      \* the class creation attempted last
          error      \* the exception the last class creation raised, or NoError

vars == <<spider, library, now, pc, cb, out, raised, sched, first, namespace, decl, error>>

NoCb == [name |-> "none"]
NoFirst == [name |-> "none"]
NoDecl == [class_name |-> "none"]
NoError == [exc |-> "none"]

----------------------------------------------------------------------------
(* Bounds of the model *)

MaxItems == 2

----------------------------------------------------------------------------
(* Python values *)

NoneDT == <<>>
NoneS == <<"<None>">>
EmptyS == <<>>

Truthy(s) == s # NoneS /\ s # EmptyS

RECURSIVE Lower(_)
LowerTok(t) ==
    CASE t = "Commission" -> "commission"
      [] t = "Committee" -> "committee"
      [] t = "Board" -> "board"
      [] t = "Council" -> "council"
      [] t = "Agenda" -> "agenda"
      [] t = "Minutes" -> "minutes"
      [] t = "Next" -> "next"
      [] t = "Legislative" -> "legislative"
      [] t = "Recess" -> "recess"
      [] t = "Regular" -> "regular"
      [] t = "Special" -> "special"
      [] t = "Works" -> "works"
      [] t = "Video" -> "video"
      [] t = "Advisory" -> "advisory"
      [] t = "ADVISORY" -> "advisory"
      [] t = "Authority" -> "authority"
      [] t = "Budget" -> "budget"
      [] t = "Projects" -> "projects"
      [] t = "And" -> "and"
      [] t = "COUNCIL" -> "council"
      [] t = "Agenda en Espanol" -> "agenda en espanol"
      [] t = "November" -> "november"
      [] t = "Nov" -> "nov"
      [] t = "AM" -> "am"
      [] t = "PM" -> "pm"
      [] t = "Planning" -> "planning"
      [] t = "Traffic" -> "traffic"
      [] t = "Safety" -> "safety"
      [] t = "Public" -> "public"
      [] t = "Art" -> "art"
      [] t = "City" -> "city"
      [] t = "Library" -> "library"
      [] t = "Meeting" -> "meeting"
      [] t = "Home" -> "home"
      [] t = "Components" -> "components"
      [] t = "Calendar" -> "calendar"
      [] t = "Event" -> "event"
      [] t = "January" -> "january"
      [] t = "February" -> "february"
      [] t = "March" -> "march"
      [] t = "April" -> "april"
      [] t = "May" -> "may"
      [] t = "June" -> "june"
      [] t = "July" -> "july"
      [] t = "August" -> "august"
      [] t = "September" -> "september"
      [] t = "October" -> "october"
      [] t = "December" -> "december"
      [] t = "Jan" -> "jan"
      [] t = "Feb" -> "feb"
      [] t = "Mar" -> "mar"
      [] t = "Apr" -> "apr"
      [] t = "Jun" -> "jun"
      [] t = "Jul" -> "jul"
      [] t = "Aug" -> "aug"
      [] t = "Sep" -> "sep"
      [] t = "Oct" -> "oct"
      [] t = "Dec" -> "dec"
      [] t = "To" -> "to"
      [] OTHER -> t

Lower(s) == IF s = <<>> THEN <<>> ELSE <<LowerTok(Head(s))>> \o Lower(Tail(s))

\* k in s
Contains(s, k) ==
    \E i \in 0..(Len(s) - Len(k)) : SubSeq(s, i + 1, i + Len(k)) = k

StartsWith(s, k) == Len(s) >= Len(k) /\ SubSeq(s, 1, Len(k)) = k

RECURSIVE LStrip(_, _)
LStrip(s, t) == IF s # <<>> /\ Head(s) = t THEN LStrip(Tail(s), t) ELSE s

Range(s) == {s[i] : i \in DOMAIN s}

SeqsUpTo(S, n) == UNION {[1..k -> S] : k \in 0..n}

MinOf(S) == CHOOSE x \in S : \A y \in S : x <= y

\* the first datetime of a sequence that is not None
FirstOf(seq) ==
    LET hits == {i \in DOMAIN seq : seq[i] # NoneDT}
    IN  IF hits = {} THEN NoneDT ELSE seq[MinOf(hits)]

\* datetime comparison a < b
Before(a, b) ==
    \E i \in 1..5 : a[i] < b[i] /\ \A j \in 1..(i - 1) : a[j] = b[j]

WS == {" ", "\n"}

\* str.strip(): leading and trailing whitespace removed
RECURSIVE LStripWS(_)
LStripWS(s) == IF s # <<>> /\ Head(s) \in WS THEN LStripWS(Tail(s)) ELSE s

RECURSIVE RStripWS(_)
RStripWS(s) ==
    IF s # <<>> /\ s[Len(s)] \in WS THEN RStripWS(SubSeq(s, 1, Len(s) - 1)) ELSE s

Strip(s) == RStripWS(LStripWS(s))

\* re.sub(r"\s+", " ", text): every run of whitespace becomes one blank
RECURSIVE CollapseWS(_)
CollapseWS(s) ==
    IF s = <<>> THEN <<>>
    ELSE IF Head(s) \in WS
         THEN <<" ">> \o CollapseWS(LStripWS(s))
         ELSE <<Head(s)>> \o CollapseWS(Tail(s))

\* html.unescape
UnescapeTok(t) == IF t = "&amp;" THEN "&" ELSE t
Unescape(s) == [i \in DOMAIN s |-> UnescapeTok(s[i])]

\* the decimal numerals of 0..59, the numeral of n at index n + 1
Decimal ==
    <<"0", "1", "2", "3", "4", "5", "6", "7", "8", "9", "10", "11",
      "12", "13", "14", "15", "16", "17", "18", "19", "20", "21",
      "22", "23", "24", "25", "26", "27", "28", "29", "30", "31",
      "32", "33", "34", "35", "36", "37", "38", "39", "40", "41",
      "42", "43", "44", "45", "46", "47", "48", "49", "50", "51",
      "52", "53", "54", "55", "56", "57", "58", "59">>

DecimalSet == {Decimal[i] : i \in DOMAIN Decimal}

\* the numerals of 0..9 in two digits, and the numerals of the years
Padded == <<"00", "01", "02", "03", "04", "05", "06", "07", "08", "09">>

YearTok(y) == IF y = 2024 THEN "2024" ELSE "2025"

\* the number a run of digits stands for; -1 when the token is not digits
Num(t) ==
    CASE t \in DecimalSet -> (CHOOSE i \in DOMAIN Decimal : Decimal[i] = t) - 1
      [] t = "00" -> 0
      [] t = "01" -> 1
      [] t = "02" -> 2
      [] t = "03" -> 3
      [] t = "04" -> 4
      [] t = "05" -> 5
      [] t = "06" -> 6
      [] t = "07" -> 7
      [] t = "08" -> 8
      [] t = "09" -> 9
      [] t = "2021" -> 2021
      [] t = "2024" -> 2024
      [] t = "2025" -> 2025
      [] OTHER -> -1

\* the number of characters of a token of digits
Width(t) ==
    IF t \in {"0", "1", "2", "3", "4", "5", "6", "7", "8", "9"} THEN 1
    ELSE IF t \in {"2021", "2024", "2025"} THEN 4
    ELSE IF t \in {"91950", "91910"} THEN 5 ELSE 2

IsLeap(y) == (y % 4 = 0 /\ y % 100 # 0) \/ y % 400 = 0

DaysIn(y, m) ==
    IF m = 2 THEN (IF IsLeap(y) THEN 29 ELSE 28)
    ELSE IF m \in {4, 6, 9, 11} THEN 30 ELSE 31

\* The days of start_requests are counted from 2024-01-01, a Monday, as day 0.
\* the date of day n, n days after the first of month m of year y
RECURSIVE CivilFrom(_, _, _)
CivilFrom(y, m, n) ==
    IF n < DaysIn(y, m) THEN <<y, m, n + 1>>
    ELSE IF m = 12 THEN CivilFrom(y + 1, 1, n - DaysIn(y, m))
    ELSE CivilFrom(y, m + 1, n - DaysIn(y, m))

\* a weekday that counts from Sunday
WeekdayFromSunday(n) == (n + 1) % 7

\* current_date.weekday(): Monday is 0
Weekday(n) == n % 7

\* what datetime(year, month, day, hour, minute) accepts
ValidDT(y, m, d, h, mi) ==
    /\ y >= 1 /\ y <= 9999
    /\ m >= 1 /\ m <= 12
    /\ d >= 1 /\ d <= DaysIn(y, m)
    /\ h >= 0 /\ h <= 23
    /\ mi >= 0 /\ mi <= 59

----------------------------------------------------------------------------
(* The instants of the crawl's clock *)

Instants == {<<2024, 1, 1, 0, 0>>, <<2025, 6, 1, 0, 0>>, <<2026, 1, 9, 0, 0>>}

----------------------------------------------------------------------------
(* city_scrapers_core: the spider base class and the Meeting item *)

CancelWords == {"cancel", "rescheduled", "postpone"}

\* CityScrapersSpider._get_status: cancelled by the text, passed by the clock
GetStatus(m, text, t) ==
    IF \E w \in CancelWords :
          Contains(Lower(m.title \o <<" ">> \o m.description \o <<" ">> \o text), <<w>>)
    THEN "cancelled"
    ELSE IF m.start # NoneDT /\ Before(m.start, t) THEN "passed" ELSE "tentative"

\* CityScrapersSpider._get_id: the spider name, the start and the title
GetId(sp, m) == [name |-> sp.name, start |-> m.start, title |-> Lower(m.title)]

\* What the two calls do to a record whose start is None is not decided by
\* this repository: they return ("ok") or they raise ("raise").
LibOutcomes == {"ok", "raise"}

Finish(sp, m, text, t) ==
    [m EXCEPT !.status = GetStatus(m, text, t), !.id = GetId(sp, m)]

Meeting(title, description, classification, start, end, all_day, time_notes, location, links, source) ==
    [k |-> "meeting", title |-> title, description |-> description,
     classification |-> classification, start |-> start, end |-> end,
     all_day |-> all_day, time_notes |-> time_notes, location |-> location,
     links |-> links, source |-> source, status |-> "",
     id |-> [name |-> <<>>, start |-> <<>>, title |-> <<>>]]

Request(url, callback, meta) ==
    [k |-> "request", url |-> url, callback |-> callback, meta |-> meta]

Meetings(o) == SelectSeq(o, LAMBDA x : x.k = "meeting")
Requests(o) == SelectSeq(o, LAMBDA x : x.k = "request")

NoDupHref(links) ==
    \A i, j \in DOMAIN links : links[i].href = links[j].href => i = j

----------------------------------------------------------------------------
(* mixins/sandie_citychula.py: the Chula Vista mixin *)

CvBaseUrl == <<"http", "s://pub-chulavista.escribemeetings.com", "/">>
CvApiUrl == CvBaseUrl \o <<"MeetingsCalendarView.aspx/GetCalendarMeetings">>

\* a conversion that leaves a relative URL as it is
MakeAbsoluteUrlKeepingRelative(url) ==
    IF ~Truthy(url) \/ StartsWith(url, <<"<">>) THEN NoneS ELSE url

\* _make_absolute_url
MakeAbsoluteUrl(url) ==
    IF ~Truthy(url) \/ StartsWith(url, <<"<">>) THEN NoneS
    ELSE IF StartsWith(url, <<"http">>) THEN url
    ELSE CvBaseUrl \o LStrip(url, "/")

BrTags == {"<br>", "<br/>", "<BR />"}
Tags == BrTags \cup {"<p>", "</p>", "<b>", "</b>"}

\* _clean_html
RECURSIVE SubBr(_)
SubBr(s) ==
    IF s = <<>> THEN <<>>
    ELSE (IF Head(s) \in BrTags THEN <<",", " ">> ELSE <<Head(s)>>) \o SubBr(Tail(s))

CleanHtml(text) ==
    IF ~Truthy(text) THEN EmptyS
    ELSE Strip(CollapseWS(SelectSeq(SubBr(text), LAMBDA t : t \notin Tags)))

\* _parse_title
CvParseTitle(item) ==
    Unescape(Strip(IF Truthy(item.MeetingName) THEN item.MeetingName
                   ELSE item.MeetingType))

\* _parse_classification
CvParseClassification(item) ==
    LET title == Lower(item.MeetingType)
    IN  IF Contains(title, <<"commission">>) THEN "Commission"
        ELSE IF Contains(title, <<"committee">>) THEN "Committee"
        ELSE IF Contains(title, <<"board">>) THEN "Board"
        ELSE "Not classified"

\* strptime(date_str, "%Y/%m/%d %H:%M:%S"): four digits of year, one or two
\* digits in every other field, a run of whitespace for the blank of the format;
\* NoneDT stands for the ValueError
Strptime(date_str) ==
    LET s == CollapseWS(date_str)
    IN  IF /\ Len(s) = 11
           /\ s[2] = "/" /\ s[4] = "/" /\ s[6] = " " /\ s[8] = ":" /\ s[10] = ":"
           /\ Num(s[1]) >= 0 /\ Width(s[1]) = 4
           /\ \A i \in {3, 5, 7, 9, 11} : Num(s[i]) >= 0 /\ Width(s[i]) <= 2
           /\ ValidDT(Num(s[1]), Num(s[3]), Num(s[5]), Num(s[7]), Num(s[9]))
           /\ Num(s[11]) <= 59
        THEN <<Num(s[1]), Num(s[3]), Num(s[5]), Num(s[7]), Num(s[9])>>
        ELSE NoneDT

\* a parser that takes the date of a value without a time of day as well
CvParseDatetimeOrDate(date_str) ==
    IF ~Truthy(date_str) THEN NoneDT
    ELSE IF Strptime(date_str) # NoneDT THEN Strptime(date_str)
    ELSE Strptime(date_str \o <<" ", "00", ":", "00", ":", "00">>)

\* _parse_datetime
CvParseDatetime(date_str) ==
    IF ~Truthy(date_str) THEN NoneDT ELSE Strptime(date_str)

CvParseStart(item) == CvParseDatetime(item.StartDate)
CvParseEnd(item) == CvParseDatetime(item.EndDate)

\* str.lstrip(", ")
RECURSIVE LStripCommaBlank(_)
LStripCommaBlank(s) ==
    IF s # <<>> /\ Head(s) \in {",", " "} THEN LStripCommaBlank(Tail(s)) ELSE s

\* _parse_location
CvParseLocation(item) ==
    LET name == Strip(IF Truthy(item.Location) THEN item.Location ELSE EmptyS)
        cleaned == CleanHtml(item.Description)
        address == IF StartsWith(cleaned, name)
                   THEN Strip(LStripCommaBlank(SubSeq(cleaned, Len(name) + 1, Len(cleaned))))
                   ELSE cleaned
    IN  [name |-> name, address |-> IF address = EmptyS THEN name ELSE address]

\* _normalize_link_title
NormalizeLinkTitle(title) ==
    IF ~Truthy(title) THEN NoneS
    ELSE IF Lower(Strip(title)) = <<"agenda en espanol">> THEN <<"Agenda (Spanish)">>
    ELSE Strip(title)

\* _parse_links: the loop over MeetingDocumentLink, with its seen_urls set
RECURSIVE CvDocLinks(_, _)
CvDocLinks(docs, seen) ==
    IF docs = <<>> THEN <<>>
    ELSE LET url == MakeAbsoluteUrl(Head(docs).Url)
             title == NormalizeLinkTitle(Head(docs).Title)
         IN  IF ~Truthy(url) \/ url \in seen \/ ~Truthy(title)
             THEN CvDocLinks(Tail(docs), seen)
             ELSE <<[href |-> url, title |-> title]>>
                  \o CvDocLinks(Tail(docs), seen \cup {url})

CvSeenAfter(docs) == {l.href : l \in Range(CvDocLinks(docs, {}))}

CvParseLinks(item) ==
    LET links == CvDocLinks(item.MeetingDocumentLink, {})
        seen == CvSeenAfter(item.MeetingDocumentLink)
        video_url == MakeAbsoluteUrl(item.VideoUrl)
    IN  IF item.HasVideo /\ Truthy(item.VideoUrl)
           /\ Truthy(video_url) /\ video_url \notin seen
        THEN links \o <<[href |-> video_url, title |-> <<"Video">>]>>
        ELSE links

RECURSIVE JoinTitles(_)
JoinTitles(links) ==
    IF links = <<>> THEN <<>>
    ELSE Head(links).title
         \o (IF Tail(links) = <<>> THEN <<>> ELSE <<" ">> \o JoinTitles(Tail(links)))

\* a _create_meeting that starts a record without a start at the current time
CreateMeetingStartingNow(sp, item, t) ==
    IF /\ sp.allowed_meeting_types # {}
       /\ Strip(item.MeetingType) \notin sp.allowed_meeting_types
       /\ Strip(item.MeetingName) \notin sp.allowed_meeting_types
    THEN <<>>
    ELSE LET meeting == Meeting(CvParseTitle(item), EmptyS,
                                CvParseClassification(item), CvParseStart(item),
                                CvParseEnd(item), FALSE, sp.time_notes,
                                CvParseLocation(item), CvParseLinks(item), CvApiUrl)
         IN  IF meeting.start = NoneDT
             THEN <<Finish(sp, [meeting EXCEPT !.start = t],
                           JoinTitles(meeting.links), t)>>
             ELSE <<Finish(sp, meeting, JoinTitles(meeting.links), t)>>

\* _create_meeting: <<>> stands for None
CreateMeeting(sp, item, t) ==
    IF /\ sp.allowed_meeting_types # {}
       /\ Strip(item.MeetingType) \notin sp.allowed_meeting_types
       /\ Strip(item.MeetingName) \notin sp.allowed_meeting_types
    THEN <<>>
    ELSE LET meeting == Meeting(CvParseTitle(item), EmptyS,
                                CvParseClassification(item), CvParseStart(item),
                                CvParseEnd(item), FALSE, sp.time_notes,
                                CvParseLocation(item), CvParseLinks(item), CvApiUrl)
         IN  IF meeting.start = NoneDT THEN <<>>
             ELSE <<Finish(sp, meeting, JoinTitles(meeting.links), t)>>

RECURSIVE CvYield(_, _, _)
CvYield(sp, items, t) ==
    IF items = <<>> THEN <<>>
    ELSE CreateMeeting(sp, Head(items), t) \o CvYield(sp, Tail(items), t)

\* parse_calendar: response.json(), data.get("d", []), the loop
ParseCalendar(sp, body, t) ==
    IF body.json = "invalid" THEN [out |-> <<>>, raised |-> TRUE]
    ELSE IF body.d = "missing" THEN [out |-> <<>>, raised |-> FALSE]
    ELSE IF body.d = "null" THEN [out |-> <<>>, raised |-> TRUE]
    ELSE [out |-> CvYield(sp, body.items, t), raised |-> FALSE]

----------------------------------------------------------------------------
(* mixins/sandie_nationalcity.py: date and time extraction                 *)
(* A run of digits is one token, so a pattern's \d{1,2} or \d{4} group is  *)
(* a whole token of that width, except where the pattern lets the match    *)
(* start inside a run (the hour of a clock time).                          *)

D12(t) == Num(t) >= 0 /\ Width(t) <= 2
D4(t) == Num(t) >= 0 /\ Width(t) = 4

At(s, i) == IF i \in DOMAIN s THEN s[i] ELSE "<end>"

\* the index of the first token at or after i that is not whitespace
RECURSIVE SkipWS(_, _)
SkipWS(s, i) == IF At(s, i) \in WS THEN SkipWS(s, i + 1) ELSE i

\* _MONTH_MAP
MonthMap(t) ==
    CASE t \in {"january", "jan"} -> 1
      [] t \in {"february", "feb"} -> 2
      [] t \in {"march", "mar"} -> 3
      [] t \in {"april", "apr"} -> 4
      [] t = "may" -> 5
      [] t \in {"june", "jun"} -> 6
      [] t \in {"july", "jul"} -> 7
      [] t \in {"august", "aug"} -> 8
      [] t \in {"september", "sep"} -> 9
      [] t \in {"october", "oct"} -> 10
      [] t \in {"november", "nov"} -> 11
      [] t \in {"december", "dec"} -> 12
      [] OTHER -> 0

FullMonths == {"january", "february", "march", "april", "may", "june", "july",
               "august", "september", "october", "november", "december"}
AbbrMonths == {"jan", "feb", "mar", "apr", "may", "jun", "jul", "aug", "sep",
               "oct", "nov", "dec"}

\* _DATE_PATTERNS[0]: (\d{1,2})/(\d{1,2})/(\d{4}), the groups of a match at i
Slash(s, i) ==
    IF /\ D12(At(s, i)) /\ At(s, i + 1) = "/" /\ D12(At(s, i + 2))
       /\ At(s, i + 3) = "/" /\ D4(At(s, i + 4))
    THEN <<s[i], s[i + 2], s[i + 4]>> ELSE <<>>

\* _DATE_PATTERNS[1]: (\d{4})-(\d{1,2})-(\d{1,2})
Iso(s, i) ==
    IF /\ D4(At(s, i)) /\ At(s, i + 1) = "-" /\ D12(At(s, i + 2))
       /\ At(s, i + 3) = "-" /\ D12(At(s, i + 4))
    THEN <<s[i], s[i + 2], s[i + 4]>> ELSE <<>>

\* _DATE_PATTERNS[2] and [3]: (month)\.?\s+(\d{1,2}),?\s+(\d{4})
Named(s, i, months, dot) ==
    LET j == IF dot /\ At(s, i + 1) = "." THEN i + 2 ELSE i + 1
        d == SkipWS(s, j)
        c == IF At(s, d + 1) = "," THEN d + 2 ELSE d + 1
        y == SkipWS(s, c)
    IN  IF /\ LowerTok(At(s, i)) \in months
           /\ d > j /\ D12(At(s, d)) /\ y > c /\ D4(At(s, y))
        THEN <<s[i], s[d], s[y]>> ELSE <<>>

DatePattern(n, s, i) ==
    CASE n = 1 -> Slash(s, i)
      [] n = 2 -> Iso(s, i)
      [] n = 3 -> Named(s, i, FullMonths, FALSE)
      [] n = 4 -> Named(s, i, AbbrMonths, TRUE)

\* re.search: the groups of the leftmost match, <<>> when there is none
Search(P(_, _), s) ==
    LET hits == {i \in DOMAIN s : P(s, i) # <<>>}
    IN  IF hits = {} THEN <<>> ELSE P(s, MinOf(hits))

\* datetime(year, month, day): <<>> stands for the ValueError
Date(y, m, d) == IF ValidDT(y, m, d, 0, 0) THEN <<y, m, d, 0, 0>> ELSE NoneDT

\* a loop body that reads a slash date day first
DateOfGroupsDayFirst(g) ==
    IF Num(g[1]) >= 0 /\ Num(g[2]) >= 0
    THEN IF Width(g[1]) = 4
         THEN Date(Num(g[1]), Num(g[2]), Num(g[3]))
         ELSE Date(Num(g[3]), Num(g[2]), Num(g[1]))
    ELSE IF MonthMap(LowerTok(g[1])) # 0
         THEN Date(Num(g[3]), MonthMap(LowerTok(g[1])), Num(g[2]))
         ELSE NoneDT

\* the body of the loop of _parse_date for one pattern's match
DateOfGroups(g) ==
    IF Num(g[1]) >= 0 /\ Num(g[2]) >= 0
    THEN IF Width(g[1]) = 4
         THEN Date(Num(g[1]), Num(g[2]), Num(g[3]))
         ELSE Date(Num(g[3]), Num(g[1]), Num(g[2]))
    ELSE IF MonthMap(LowerTok(g[1])) # 0
         THEN Date(Num(g[3]), MonthMap(LowerTok(g[1])), Num(g[2]))
         ELSE NoneDT

\* _parse_date: the patterns in order, the first that gives a date wins
RECURSIVE ParseDateFrom(_, _)
ParseDateFrom(n, text) ==
    IF n > 4 THEN NoneDT
    ELSE LET P(s, i) == DatePattern(n, s, i)
             g == Search(P, text)
         IN  IF g # <<>> /\ DateOfGroups(g) # NoneDT THEN DateOfGroups(g)
             ELSE ParseDateFrom(n + 1, text)

ParseDate(text) == ParseDateFrom(1, text)

IsAmPm(t) == LowerTok(t) \in {"am", "pm"}

\* time_patterns[0]: (\d{1,2}):(\d{2})\s*(AM|PM|am|pm)
Clock(s, i) ==
    LET p == SkipWS(s, i + 3)
    IN  IF /\ Num(At(s, i)) >= 0 /\ At(s, i + 1) = ":"
           /\ Num(At(s, i + 2)) >= 0 /\ Width(At(s, i + 2)) = 2 /\ IsAmPm(At(s, p))
        THEN <<Num(s[i]) % 100, Num(s[i + 2]), LowerTok(s[p])>> ELSE <<>>

\* time_patterns[1]: (\d{1,2})\s*(AM|PM|am|pm)
HourOnly(s, i) ==
    LET p == SkipWS(s, i + 1)
    IN  IF Num(At(s, i)) >= 0 /\ IsAmPm(At(s, p))
        THEN <<Num(s[i]) % 100, 0, LowerTok(s[p])>> ELSE <<>>

\* a conversion that adds twelve to every PM hour
ReplaceAddingTwelve(date, g) ==
    LET hour == IF g[3] = "pm" THEN g[1] + 12
                ELSE IF g[3] = "am" /\ g[1] = 12 THEN 0 ELSE g[1]
    IN  IF hour <= 23 /\ g[2] <= 59
        THEN <<date[1], date[2], date[3], hour, g[2]>> ELSE NoneDT

\* the 12-hour conversion and parsed_date.replace(hour=..., minute=...)
Replace(date, g) ==
    LET hour == IF g[3] = "pm" /\ g[1] # 12 THEN g[1] + 12
                ELSE IF g[3] = "am" /\ g[1] = 12 THEN 0 ELSE g[1]
    IN  IF hour <= 23 /\ g[2] <= 59
        THEN <<date[1], date[2], date[3], hour, g[2]>> ELSE NoneDT

\* _extract_datetime
\* the date with the time of the first pattern that matched, if any
WithTime(parsed_date, first_match, second_match, otherwise) ==
    IF parsed_date = NoneDT THEN NoneDT
    ELSE IF first_match # <<>> THEN Replace(parsed_date, first_match)
    ELSE IF second_match # <<>> THEN Replace(parsed_date, second_match)
    ELSE otherwise

ExtractDatetime(text) ==
    WithTime(ParseDate(text), Search(Clock, text), Search(HourOnly, text),
             ParseDate(text))

\* time_range_patterns[0]: -\s*(\d{1,2}):(\d{2})\s*(AM|PM|am|pm)
DashRange(s, i) ==
    LET h == SkipWS(s, i + 1)
    IN  IF At(s, i) = "-" /\ D12(At(s, h)) /\ Clock(s, h) # <<>>
        THEN Clock(s, h) ELSE <<>>

\* time_range_patterns[1]: to\s+(\d{1,2}):(\d{2})\s*(AM|PM|am|pm)
ToRange(s, i) ==
    LET h == SkipWS(s, i + 1)
    IN  IF /\ LowerTok(At(s, i)) = "to" /\ h > i + 1
           /\ D12(At(s, h)) /\ Clock(s, h) # <<>>
        THEN Clock(s, h) ELSE <<>>

\* an end that falls back to the date when the text has no range
ExtractEndOrDate(text) ==
    WithTime(ParseDate(text), Search(DashRange, text), Search(ToRange, text),
             ParseDate(text))

\* _extract_end_datetime
ExtractEndDatetime(text) ==
    WithTime(ParseDate(text), Search(DashRange, text), Search(ToRange, text), NoneDT)

----------------------------------------------------------------------------
(* mixins/sandie_nationalcity.py: the rows of the listing table            *)
(* A row is its sequence of cells; a cell is its sequence of nodes; a node *)
(* is a text node or an <a> element: [a, href, text], with href = NoneS    *)
(* when the attribute is absent and text = NoneS when there is no text.    *)

NcHost == <<"http", "s://www.nationalcityca.gov">>
NcStartUrl == NcHost \o <<"/", "government/boards-commissions-committees">>

NcLocation ==
    [name |-> <<"National City Council Chambers">>,
     address |-> <<"1243 National City Boulevard, National City, CA 91950">>]

RECURSIVE Flatten(_)
Flatten(ss) == IF ss = <<>> THEN <<>> ELSE Head(ss) \o Flatten(Tail(ss))

\* " ".join(parts)
RECURSIVE Join(_)
Join(parts) ==
    IF parts = <<>> THEN <<>>
    ELSE IF Tail(parts) = <<>> THEN Head(parts)
    ELSE Head(parts) \o <<" ">> \o Join(Tail(parts))

\* cell.css("::text").getall()
CellTexts(cell) ==
    LET withText == SelectSeq(cell, LAMBDA n : n.text # NoneS)
    IN  [i \in DOMAIN withText |-> withText[i].text]

\* row.css("::text").getall()
RowTexts(row) == Flatten([i \in DOMAIN row.cells |-> CellTexts(row.cells[i])])

\* row.css("a")
RowAnchors(row) ==
    SelectSeq(Flatten(row.cells), LAMBDA n : n.a)

CellText(cell) == Strip(Join(CellTexts(cell)))

\* a filter that wants every element of a list event_type in the text
MatchesEveryEventType(sp, text) ==
    IF sp.event_type_is = "str" THEN Contains(Lower(text), Lower(sp.event_type))
    ELSE IF sp.event_type_is = "list"
         THEN \A i \in DOMAIN sp.event_type :
                 Contains(Lower(text), Lower(sp.event_type[i]))
    ELSE FALSE

\* _matches_event_type
MatchesEventType(sp, text) ==
    IF sp.event_type_is = "str" THEN Contains(Lower(text), Lower(sp.event_type))
    ELSE IF sp.event_type_is = "list"
         THEN \E i \in DOMAIN sp.event_type :
                 Contains(Lower(text), Lower(sp.event_type[i]))
    ELSE FALSE

\* _get_detail_url
DetailPath == <<"/", "Home", "/", "Components", "/", "Calendar", "/", "Event", "/">>

RECURSIVE GetDetailUrlFrom(_)
GetDetailUrlFrom(anchors) ==
    IF anchors = <<>> THEN NoneS
    ELSE LET href == Strip(IF Truthy(Head(anchors).href) THEN Head(anchors).href
                           ELSE EmptyS)
         IN  IF href = EmptyS \/ ~Contains(href, DetailPath)
             THEN GetDetailUrlFrom(Tail(anchors))
             ELSE IF StartsWith(href, <<"/">>) THEN NcHost \o href
             ELSE IF ~StartsWith(href, <<"http">>)
                  THEN NcHost \o <<"/">> \o LStrip(href, "/")
             ELSE href

GetDetailUrl(row) == GetDetailUrlFrom(RowAnchors(row))

\* _normalize_title
SmartTok(t) ==
    CASE t \in {"u2013", "u2014"} -> "-"
      [] t \in {"u2018", "u2019"} -> "'"
      [] t \in {"u201c", "u201d"} -> "dquote"
      [] OTHER -> t

NormalizeTitle(text) ==
    IF ~Truthy(text) THEN EmptyS
    ELSE LET un == Unescape(text)
         IN  Strip(CollapseWS([i \in DOMAIN un |-> SmartTok(un[i])]))

\* _parse_title
NcParseTitle(sp, row) ==
    IF row.cells = <<>> THEN sp.agency
    ELSE LET texts == CellTexts(row.cells[1])
             title_text == NormalizeTitle(IF texts = <<>> THEN NoneS ELSE texts[1])
             all_text == NormalizeTitle(Join(RowTexts(row)))
         IN  IF title_text # EmptyS THEN title_text
             ELSE IF all_text # EmptyS THEN all_text
             ELSE sp.agency

\* _filter_datetime_from_description: the date and time patterns removed
RECURSIVE DropDateTimes(_)
DropDateTimes(s) ==
    IF s = <<>> THEN <<>>
    ELSE IF Slash(s, 1) # <<>> THEN DropDateTimes(SubSeq(s, 6, Len(s)))
    ELSE IF Clock(s, 1) # <<>> /\ D12(s[1])
         THEN DropDateTimes(SubSeq(s, SkipWS(s, 4) + 1, Len(s)))
    ELSE IF Named(s, 1, FullMonths, FALSE) # <<>>
         THEN LET d == SkipWS(s, 2)
                  c == IF At(s, d + 1) = "," THEN d + 2 ELSE d + 1
              IN  DropDateTimes(SubSeq(s, SkipWS(s, c) + 1, Len(s)))
    ELSE <<Head(s)>> \o DropDateTimes(Tail(s))

RECURSIVE LStripDash(_)
LStripDash(s) ==
    IF s # <<>> /\ Head(s) \in WS \cup {"-"} THEN LStripDash(Tail(s)) ELSE s

RECURSIVE RStripDash(_)
RStripDash(s) ==
    IF s # <<>> /\ s[Len(s)] \in WS \cup {"-"}
    THEN RStripDash(SubSeq(s, 1, Len(s) - 1)) ELSE s

FilterDatetimeFromDescription(text) ==
    IF text = EmptyS THEN EmptyS
    ELSE RStripDash(LStripDash(Strip(CollapseWS(DropDateTimes(text)))))

\* _parse_description
NcParseDescription(row) ==
    IF Len(row.cells) > 1
    THEN FilterDatetimeFromDescription(CellText(row.cells[2]))
    ELSE EmptyS

\* a classifier that looks for "committee" before "advisory"
ClassificationCommitteeFirst(title) ==
    LET title_lower == Lower(title)
    IN  IF Contains(title_lower, <<"commission">>) THEN "Commission"
        ELSE IF Contains(title_lower, <<"committee">>) THEN "Committee"
        ELSE IF Contains(title_lower, <<"advisory">>) THEN "Advisory Committee"
        ELSE IF Contains(title_lower, <<"board">>) THEN "Board"
        ELSE IF Contains(title_lower, <<"council">>) THEN "City Council"
        ELSE "Not classified"

\* _parse_classification_from_title
ClassificationFromTitle(title) ==
    LET title_lower == Lower(title)
    IN  IF Contains(title_lower, <<"commission">>) THEN "Commission"
        ELSE IF Contains(title_lower, <<"advisory">>) THEN "Advisory Committee"
        ELSE IF Contains(title_lower, <<"committee">>) THEN "Committee"
        ELSE IF Contains(title_lower, <<"board">>) THEN "Board"
        ELSE IF Contains(title_lower, <<"council">>) THEN "City Council"
        ELSE "Not classified"

\* _parse_classification
NcParseClassification(sp, row) == ClassificationFromTitle(NcParseTitle(sp, row))

\* a single pass: the first cell with a date
OnePass(dt) == FirstOf(dt)

\* _parse_start: the first cell with a time of day, else the first cell with a date
TwoPass(dt) ==
    LET timed == {i \in DOMAIN dt : dt[i] # NoneDT /\ (dt[i][4] # 0 \/ dt[i][5] # 0)}
        dated == {i \in DOMAIN dt : dt[i] # NoneDT}
    IN  IF timed # {} THEN dt[MinOf(timed)]
        ELSE IF dated # {} THEN dt[MinOf(dated)]
        ELSE NoneDT

NcParseStart(row) ==
    TwoPass([i \in DOMAIN row.cells |-> ExtractDatetime(CellText(row.cells[i]))])

\* _parse_end
NcParseEnd(row) ==
    FirstOf([i \in DOMAIN row.cells |-> ExtractEndDatetime(CellText(row.cells[i]))])

\* a _parse_links that keeps the links to calendar pages
NcLinkOfKeepingCalendar(n) ==
    LET raw == Strip(IF n.href = NoneS THEN EmptyS ELSE n.href)
        href == IF StartsWith(raw, <<"/">>) THEN NcHost \o raw
                ELSE IF ~StartsWith(raw, <<"http">>) THEN NcHost \o <<"/">> \o raw
                ELSE raw
        title == IF ~Truthy(n.text) THEN <<"Document">>
                 ELSE NormalizeTitle(Strip(n.text))
    IN  IF raw = EmptyS THEN <<>>
        ELSE <<[href |-> href, title |-> title, original_title |-> title]>>

\* _parse_links: one <a> element
NcLinkOf(n) ==
    LET raw == Strip(IF n.href = NoneS THEN EmptyS ELSE n.href)
        href == IF StartsWith(raw, <<"/">>) THEN NcHost \o raw
                ELSE IF ~StartsWith(raw, <<"http">>) THEN NcHost \o <<"/">> \o raw
                ELSE raw
        href_lower == Lower(href)
        title == IF ~Truthy(n.text) THEN <<"Document">>
                 ELSE NormalizeTitle(Strip(n.text))
        title_lower == Lower(title)
        has(w) == Contains(href_lower, <<w>>) \/ Contains(title_lower, <<w>>)
        link_title == IF has("agenda") THEN <<"Agenda">>
                      ELSE IF has("minutes") THEN <<"Minutes">>
                      ELSE IF has("packet") THEN <<"Packet">>
                      ELSE title
    IN  IF raw = EmptyS THEN <<>>
        ELSE IF \/ Contains(href_lower, <<"/", "calendar", "/", "event", "/">>)
                \/ Contains(href_lower, <<"/", "components", "/", "calendar", "/">>)
             THEN <<>>
        ELSE <<[href |-> href, title |-> link_title, original_title |-> title]>>

\* _parse_links
RECURSIVE NcLinksOf(_)
NcLinksOf(anchors) ==
    IF anchors = <<>> THEN <<>>
    ELSE NcLinkOf(Head(anchors)) \o NcLinksOf(Tail(anchors))

NcParseLinks(row) == NcLinksOf(RowAnchors(row))

\* str.split(): the words of a text
RECURSIVE Words(_)
Words(s) ==
    LET t == LStripWS(s)
        n == IF \E i \in DOMAIN t : t[i] \in WS
             THEN MinOf({i \in DOMAIN t : t[i] \in WS}) - 1 ELSE Len(t)
    IN  IF t = <<>> THEN <<>>
        ELSE <<SubSeq(t, 1, n)>> \o Words(SubSeq(t, n + 1, Len(t)))

\* _detect_combined_meeting: <<>> stands for None
CombinedIndicators == {<<" ", "and", " ">>, <<" ", "&", " ">>, <<"/">>}

\* a detection that does not look for a conjunction indicator
DetectCombinedWithoutIndicator(sp, title) ==
    LET found_types == SelectSeq(sp.event_type,
                                 LAMBDA e : Contains(Lower(title), Lower(e)))
    IN  IF sp.event_type_is # "list" THEN <<>>
        ELSE IF Len(found_types) > 1 THEN found_types ELSE <<>>

DetectCombinedMeeting(sp, title) ==
    LET title_lower == Lower(title)
        found_types == SelectSeq(sp.event_type,
                                 LAMBDA e : Contains(title_lower, Lower(e)))
    IN  IF sp.event_type_is # "list" THEN <<>>
        ELSE IF ~\E ind \in CombinedIndicators : Contains(title_lower, ind) THEN <<>>
        ELSE IF Len(found_types) > 1 THEN found_types ELSE <<>>

\* a filter that searches the canonical title of a link
FilterLinksByCanonicalTitle(links, event_type) ==
    LET event_keywords == Words(Lower(event_type))
        keep(l) == \E k \in Range(event_keywords) : Contains(Lower(l.title), k)
        kept == SelectSeq(links, keep)
    IN  [i \in DOMAIN kept |-> [href |-> kept[i].href, title |-> kept[i].title]]

\* _filter_links_by_event_type
FilterLinksByEventType(links, event_type) ==
    LET event_keywords == Words(Lower(event_type))
        keep(l) == \E k \in Range(event_keywords) :
                      Contains(Lower(l.original_title), k)
        kept == SelectSeq(links, keep)
    IN  [i \in DOMAIN kept |-> [href |-> kept[i].href, title |-> kept[i].title]]

\* _extract_title_for_event_type
ExtractTitleForEventType(title, event_type) == event_type \o <<" ", "Meeting">>

----------------------------------------------------------------------------
(* mixins/sandie_nationalcity.py: parse and parse_detail                   *)
(* A callback's result is [out, raised]: what it yielded, in order, and    *)
(* whether it ended with an exception (what it yielded before stays).      *)

MeetingData(title, description, classification, start, end, links, sp, source) ==
    [title |-> title, description |-> description, classification |-> classification,
     start |-> start, end |-> end, all_day |-> FALSE, time_notes |-> sp.time_notes,
     links |-> links, source |-> source]

\* parse, lines 170-215: the meeting_data_list of a row, from the values the
\* helpers returned for it
MeetingDataOf(sp, source, title, combined_types, links, start_date, end, description, classification) ==
    IF combined_types # <<>>
    THEN [i \in DOMAIN combined_types |->
            MeetingData(ExtractTitleForEventType(title, combined_types[i]),
                        description,
                        ClassificationFromTitle(
                            ExtractTitleForEventType(title, combined_types[i])),
                        start_date, end,
                        FilterLinksByEventType(links, combined_types[i]), sp, source)]
    ELSE <<MeetingData(title, description, classification, start_date, end,
                       [i \in DOMAIN links |->
                           [href |-> links[i].href, title |-> links[i].title]],
                       sp, source)>>

MeetingDataList(sp, row, source) ==
    MeetingDataOf(sp, source, NcParseTitle(sp, row),
                  DetectCombinedMeeting(sp, NcParseTitle(sp, row)),
                  NcParseLinks(row), NcParseStart(row), NcParseEnd(row),
                  NcParseDescription(row), NcParseClassification(sp, row))

\* a parse without the cut-off
TooOldNever(sp, start_date) == FALSE

\* parse, line 163: the start is before the first year of interest
TooOld(sp, start_date) == start_date # NoneDT /\ start_date[1] < sp.start_year

\* parse, lines 146-163: the row is skipped
RowSkipped(sp, row) ==
    \/ row.cells = <<>>
    \/ ~MatchesEventType(sp, Join(RowTexts(row)))
    \/ TooOld(sp, NcParseStart(row))

\* two parts of a callback in sequence: the second does not run when the
\* first raised
Then(r, rest) ==
    IF r.raised THEN r ELSE [out |-> r.out \o rest.out, raised |-> rest.raised]

Yield(o) == [out |-> o, raised |-> FALSE]
Raise == [out |-> <<>>, raised |-> TRUE]

\* Meeting(**meeting_data, location=...), _get_status, _get_id, yield
Emit(sp, d, location, t, lib) ==
    IF d.start = NoneDT /\ lib = "raise" THEN Raise
    ELSE Yield(<<Finish(sp, Meeting(d.title, d.description, d.classification, d.start,
                                    d.end, d.all_day, d.time_notes, location, d.links,
                                    d.source),
                        EmptyS, t)>>)

\* the records of a meeting_data_list, up to the first that the library refuses
RECURSIVE EmitAll(_, _, _, _, _)
EmitAll(sp, list, location, t, lib) ==
    IF list = <<>> THEN Yield(<<>>)
    ELSE Then(Emit(sp, Head(list), location, t, lib),
              EmitAll(sp, Tail(list), location, t, lib))

\* parse, lines 217-231: the detail request of a row, or its records
RowYield(sp, list, detail_url, t, lib) ==
    IF detail_url # NoneS THEN Yield(<<Request(detail_url, "parse_detail", list)>>)
    ELSE EmitAll(sp, list, sp.location, t, lib)

\* parse: what one row yields
NcRow(sp, row, url, t, lib) ==
    IF RowSkipped(sp, row) THEN Yield(<<>>)
    ELSE RowYield(sp, MeetingDataList(sp, row, url), GetDetailUrl(row), t, lib)

RECURSIVE NcRows(_, _, _, _, _)
NcRows(sp, rows, url, t, lib) ==
    IF rows = <<>> THEN Yield(<<>>)
    ELSE Then(NcRow(sp, Head(rows), url, t, lib), NcRows(sp, Tail(rows), url, t, lib))

RECURSIVE UpTo(_, _)
UpTo(s, t) == IF s = <<>> \/ Head(s) = t THEN <<>> ELSE <<Head(s)>> \o UpTo(Tail(s), t)

\* response.urljoin
UrlJoin(host, href) ==
    IF StartsWith(href, <<"http">>) THEN href
    ELSE IF StartsWith(href, <<"/">>) THEN host \o href
    ELSE host \o <<"/">> \o href

\* a pager that follows the first link that is not a javascript: link
NextPageSkippingJavascript(page) ==
    LET all == Flatten([i \in DOMAIN page.rows |-> RowAnchors(page.rows[i])]) \o page.nav
        next_links == SelectSeq(all, LAMBDA n :
                         /\ n.text # NoneS /\ n.href # NoneS
                         /\ Contains(n.text, <<"Next">>)
                         /\ Contains(n.href, <<"-npage-">>)
                         /\ ~StartsWith(n.href, <<"javascript:">>))
    IN  IF next_links # <<>> /\ next_links[1].href # EmptyS
        THEN <<Request(UpTo(UrlJoin(NcHost, next_links[1].href), "#"), "parse", <<>>)>>
        ELSE <<>>

\* parse, lines 236-253: the request for the next page, if any
NextPage(page) ==
    LET all == Flatten([i \in DOMAIN page.rows |-> RowAnchors(page.rows[i])]) \o page.nav
        next_links == SelectSeq(all, LAMBDA n :
                         /\ n.text # NoneS /\ n.href # NoneS
                         /\ Contains(n.text, <<"Next">>)
                         /\ Contains(n.href, <<"-npage-">>))
        next_href == next_links[1].href
    IN  IF next_links # <<>> /\ next_href # EmptyS
           /\ ~StartsWith(next_href, <<"javascript:">>)
        THEN <<Request(UpTo(UrlJoin(NcHost, next_href), "#"), "parse", <<>>)>>
        ELSE <<>>

\* parse
NcParse(sp, page, url, t, lib) ==
    Then(NcRows(sp, page.rows, url, t, lib), Yield(NextPage(page)))

Zip5 == {"91950", "91910"}

RECURSIVE RStripTok(_, _)
RStripTok(s, t) ==
    IF s # <<>> /\ s[Len(s)] = t THEN RStripTok(SubSeq(s, 1, Len(s) - 1), t) ELSE s

JoinComma(parts) ==
    LET RECURSIVE J(_)
        J(ps) == IF ps = <<>> THEN <<>>
                 ELSE IF Tail(ps) = <<>> THEN Head(ps)
                 ELSE Head(ps) \o <<",", " ">> \o J(Tail(ps))
    IN  J(parts)

\* _parse_detail_location
ParseDetailLocation(sp, page) ==
    LET address_text == Strip(CollapseWS(page.address_text))
        zips == {i \in DOMAIN address_text : address_text[i] \in Zip5}
        zip_code == IF zips = {} THEN EmptyS ELSE <<address_text[MinOf(zips)]>>
        part(x) == IF Truthy(x) THEN <<RStripTok(Strip(x), ",")>> ELSE <<>>
        parts == part(page.street) \o part(page.locality) \o part(page.region)
        address == IF parts # <<>>
                   THEN (IF zip_code # EmptyS
                         THEN JoinComma(parts) \o <<" ">> \o zip_code
                         ELSE JoinComma(parts))
                   ELSE address_text
    IN  IF ~page.li THEN sp.location
        ELSE IF (Truthy(page.name) /\ Strip(page.name) # EmptyS) \/ address # EmptyS
             THEN [name |-> IF Truthy(page.name) THEN Strip(page.name) ELSE EmptyS,
                   address |-> address]
        ELSE sp.location

\* parse_detail
ParseDetail(sp, meta, page, t, lib) ==
    EmitAll(sp, meta, ParseDetailLocation(sp, page), t, lib)

----------------------------------------------------------------------------
(* spiders/tulok_citycouncil.py: the Tulsa City Council spider *)

TulsaLocation ==
    [name |-> <<"City Hall">>, address |-> <<"175 East 2nd Street, Tulsa, OK 74103">>]

CommitteeTerms ==
    {<<"committee">>, <<"budget", " ", "and", " ", "special", " ", "projects">>,
     <<"public", " ", "works">>,
     <<"urban", " ", "and", " ", "economic", " ", "development">>}
CouncilTerms == {<<"council">>, <<"regular">>, <<"special">>}

\* a classifier that tests the council terms before the committee terms
TulsaClassificationCouncilFirst(title) ==
    IF ~Truthy(title) THEN "Not classified"
    ELSE IF \E term \in CouncilTerms : Contains(Lower(title), term) THEN "City Council"
    ELSE IF \E term \in CommitteeTerms : Contains(Lower(title), term) THEN "Committee"
    ELSE "Not classified"

\* _parse_classification
TulsaParseClassification(title) ==
    IF ~Truthy(title) THEN "Not classified"
    ELSE IF \E term \in CommitteeTerms : Contains(Lower(title), term) THEN "Committee"
    ELSE IF \E term \in CouncilTerms : Contains(Lower(title), term) THEN "City Council"
    ELSE "Not classified"

\* strptime %I:%M %p (blank = TRUE) or %I:%M%p (blank = FALSE) on the whole of s
Strp12(s, blank) ==
    LET n == IF blank THEN 5 ELSE 4
        hour == (Num(s[1]) % 12) + (IF LowerTok(s[n]) = "pm" THEN 12 ELSE 0)
    IN  IF /\ Len(s) = n /\ D12(s[1]) /\ Num(s[1]) >= 1 /\ Num(s[1]) <= 12
           /\ s[2] = ":" /\ D12(s[3]) /\ Num(s[3]) <= 59
           /\ (blank => s[4] = " ") /\ IsAmPm(s[n])
        THEN <<hour, Num(s[3])>> ELSE <<>>

\* strptime %B %d, %Y (blank = FALSE) or %B %d , %Y (blank = TRUE) on the whole of s
StrpLong(s, blank) ==
    LET n == IF blank THEN 7 ELSE 6
    IN  IF /\ Len(s) = n /\ LowerTok(s[1]) \in FullMonths /\ s[2] = " " /\ D12(s[3])
           /\ (blank => s[4] = " ") /\ s[n - 2] = "," /\ s[n - 1] = " " /\ D4(s[n])
        THEN Date(Num(s[n]), MonthMap(LowerTok(s[1])), Num(s[3])) ELSE NoneDT

\* one format of _parse_start_granicus: the date, " - ", the time
StrpGranicus(s, commaBlank, timeBlank) ==
    LET n == IF commaBlank THEN 7 ELSE 6
        date == StrpLong(SubSeq(s, 1, n), commaBlank)
        time == Strp12(SubSeq(s, n + 4, Len(s)), timeBlank)
    IN  IF /\ Len(s) > n + 3 /\ SubSeq(s, n + 1, n + 3) = <<" ", "-", " ">>
           /\ date # NoneDT /\ time # <<>>
        THEN <<date[1], date[2], date[3], time[1], time[2]>> ELSE NoneDT

\* _parse_start_granicus
ParseStartGranicus(item) ==
    LET date_str == IF ~item.has_date_cell THEN item.date_class
                     ELSE Join(SelectSeq([i \in DOMAIN item.date_cell |->
                                             Strip(item.date_cell[i])],
                                         LAMBDA x : x # EmptyS))
        s == Strip(CollapseWS(date_str))
    IN  IF ~Truthy(date_str) THEN NoneDT
        ELSE FirstOf(<<StrpGranicus(s, FALSE, TRUE), StrpGranicus(s, FALSE, FALSE),
                       StrpLong(s, FALSE), StrpGranicus(s, TRUE, TRUE),
                       StrpGranicus(s, TRUE, FALSE)>>)

\* _parse_title_granicus
ParseTitleGranicus(item) ==
    IF Truthy(item.name) THEN Strip(item.name)
    ELSE <<"City", " ", "Council", " ", "Meeting">>

Https(href) == IF StartsWith(href, <<"//">>) THEN <<"http", "s:">> \o href ELSE href

\* _parse_links_granicus
ParseLinksGranicus(item) ==
    (IF Truthy(item.agenda_href)
     THEN <<[href |-> Https(item.agenda_href), title |-> <<"Agenda">>]>> ELSE <<>>)
    \o (IF Truthy(item.video_href) /\ ~Contains(item.video_href, <<"javascript:void(0)">>)
        THEN <<[href |-> Https(item.video_href), title |-> <<"Video">>]>> ELSE <<>>)

\* parse_granicus
RECURSIVE ParseGranicus(_, _, _, _)
ParseGranicus(sp, items, url, t) ==
    IF items = <<>> THEN [out |-> <<>>, raised |-> FALSE]
    ELSE LET item == Head(items)
             title == ParseTitleGranicus(item)
             start_time == ParseStartGranicus(item)
             meeting == Meeting(title, EmptyS, TulsaParseClassification(title),
                                start_time, NoneDT, FALSE, EmptyS, TulsaLocation,
                                ParseLinksGranicus(item), url)
             rest == ParseGranicus(sp, Tail(items), url, t)
         IN  IF start_time = NoneDT THEN rest
             ELSE [out |-> <<Finish(sp, meeting, EmptyS, t)>> \o rest.out,
                   raised |-> rest.raised]

\* strptime %m/%d/%Y on the whole of s
StrpSlash(s) ==
    IF /\ Len(s) = 5 /\ D12(s[1]) /\ s[2] = "/" /\ D12(s[3]) /\ s[4] = "/" /\ D4(s[5])
    THEN Date(Num(s[5]), Num(s[1]), Num(s[3])) ELSE NoneDT

\* strptime %m/%d/%Y followed by a blank and a 12-hour time
StrpSlashTime(s, timeBlank) ==
    LET date == StrpSlash(SubSeq(s, 1, 5))
        time == Strp12(SubSeq(s, 7, Len(s)), timeBlank)
    IN  IF Len(s) > 6 /\ s[6] = " " /\ date # NoneDT /\ time # <<>>
        THEN <<date[1], date[2], date[3], time[1], time[2]>> ELSE NoneDT

\* _parse_start_archive, lines 258-272: re.match at the start of the text
ArchiveRegex(s) ==
    LET h == SkipWS(s, 6)
        p == SkipWS(s, h + 3)
        timed == /\ h > 6 /\ D12(At(s, h)) /\ At(s, h + 1) = ":"
                 /\ Num(At(s, h + 2)) >= 0 /\ Width(At(s, h + 2)) = 2
                 /\ At(s, p) \in {"AM", "PM"}
        hour == IF ~timed THEN 0
                ELSE IF s[p] = "PM" /\ Num(s[h]) # 12 THEN Num(s[h]) + 12
                ELSE IF s[p] = "AM" /\ Num(s[h]) = 12 THEN 0 ELSE Num(s[h])
        minute == IF timed THEN Num(s[h + 2]) ELSE 0
    IN  IF Slash(s, 1) = <<>> THEN NoneDT
        ELSE IF ValidDT(Num(s[5]), Num(s[1]), Num(s[3]), hour, minute)
             THEN <<Num(s[5]), Num(s[1]), Num(s[3]), hour, minute>> ELSE NoneDT

\* _parse_start_archive: the %-m formats are refused by strptime
ParseStartArchive(date_time_text) ==
    LET s == Strip(date_time_text)
    IN  IF ~Truthy(date_time_text) THEN NoneDT
        ELSE FirstOf(<<StrpSlashTime(s, TRUE), StrpSlashTime(s, FALSE), StrpSlash(s),
                       ArchiveRegex(s)>>)

Digits(x) == Len(x) = 1 /\ (Num(x[1]) >= 0 \/ x[1] = "1732098600")

\* _parse_links_archive
RECURSIVE LinksArchiveOf(_)
LinksArchiveOf(anchors) ==
    IF anchors = <<>> THEN <<>>
    ELSE LET n == Head(anchors)
             text == Strip(n.text)
             href == IF StartsWith(n.href, <<"/">>)
                     THEN <<"http", "s://www.cityoftulsa.org">> \o n.href
                     ELSE IF ~StartsWith(n.href, <<"http">>)
                          THEN <<"http", "s://www.cityoftulsa.org", "/", "apps", "/">>
                               \o n.href
                     ELSE n.href
             title == IF Contains(Lower(text), <<"agenda">>) THEN <<"Agenda">>
                      ELSE IF Contains(Lower(text), <<"minute">>) THEN <<"Minutes">>
                      ELSE IF Contains(Lower(text), <<"video">>) THEN <<"Video">>
                      ELSE text
         IN  (IF ~Truthy(n.href) \/ ~Truthy(n.text) THEN <<>>
              ELSE <<[href |-> href, title |-> title]>>)
             \o LinksArchiveOf(Tail(anchors))

ParseLinksArchive(row) == LinksArchiveOf(RowAnchors(row))

\* parse_archive, lines 95-115: the date text and the meeting type of a row
ArchiveDateTexts(row) ==
    LET ts == CellTexts(row.cells[1])
        stripped == [i \in DOMAIN ts |-> Strip(ts[i])]
    IN  SelectSeq(stripped, LAMBDA x : x # EmptyS /\ ~Digits(x))

ArchiveMeetingType(row) ==
    LET anchored == CellTexts(SelectSeq(row.cells[2], LAMBDA n : n.a))
        any == CellTexts(row.cells[2])
    IN  IF anchored # <<>> /\ anchored[1] # EmptyS THEN anchored[1]
        ELSE IF any # <<>> /\ any[1] # EmptyS THEN any[1]
        ELSE NoneS

\* parse_archive, lines 120-142: the start of a row, with the search date as fallback
ArchiveStart(row, meta) ==
    LET start_time == ParseStartArchive(Join(ArchiveDateTexts(row)))
    IN  IF start_time = NoneDT /\ meta.search_date # NoneS
        THEN StrpSlash(meta.search_date) ELSE start_time

\* parse_archive
RECURSIVE ParseArchive(_, _, _, _, _)
ParseArchive(sp, rows, meta, url, t) ==
    IF rows = <<>> THEN [out |-> <<>>, raised |-> FALSE]
    ELSE LET row == Head(rows)
             meeting_type == Strip(ArchiveMeetingType(row))
             start_time == ArchiveStart(row, meta)
             meeting == Meeting(meeting_type, EmptyS,
                                TulsaParseClassification(meeting_type), start_time,
                                NoneDT, FALSE, EmptyS, TulsaLocation,
                                ParseLinksArchive(row), url)
             rest == ParseArchive(sp, Tail(rows), meta, url, t)
         IN  IF \/ Len(row.cells) < 2
                \/ ArchiveDateTexts(row) = <<>>
                \/ ArchiveMeetingType(row) = NoneS
                \/ start_time = NoneDT
             THEN rest
             ELSE [out |-> <<Finish(sp, meeting, EmptyS, t)>> \o rest.out,
                   raised |-> rest.raised]

----------------------------------------------------------------------------
(* spiders/sandie_city_council.py: the San Diego City Council spider *)

SdLocation ==
    [address |-> <<"202 C Street, San Diego">>,
     name |-> <<"San Diego County Administration Center">>]

SdWebcasts ==
    [href |-> <<"http", "s://sandiego.granicus.com/ViewPublisher.php?view_id=31">>,
     title |-> <<"Webcasts">>]

\* _parse_date: date_str[:10] and strptime %Y-%m-%d; "raise" for an exception
SdParseDate(day) ==
    LET s == day.datetime
        part == SubSeq(s, 1, IF Len(s) < 5 THEN Len(s) ELSE 5)
    IN  IF s = NoneS THEN "raise"
        ELSE IF /\ Len(part) = 5 /\ D4(part[1]) /\ part[2] = "-" /\ D12(part[3])
                /\ part[4] = "-" /\ D12(part[5])
                /\ Date(Num(part[1]), Num(part[3]), Num(part[5])) # NoneDT
             THEN "ok" ELSE "raise"

SdDate(day) == Date(Num(day.datetime[1]), Num(day.datetime[3]), Num(day.datetime[5]))

\* _parse_classification
SdParseClassification(title) ==
    IF Contains(Lower(title), <<"council">>) THEN "City Council"
    ELSE IF Contains(Lower(title), <<"committee">>) \/ Contains(Lower(title), <<"authority">>)
         THEN "Committee"
    ELSE "Not classified"

\* _parse_start: strptime(time_str, "%I:%M %p"); <<>> for an exception
SdParseStart(date, event) ==
    LET time == IF event.time = NoneS THEN <<>> ELSE Strp12(event.time, TRUE)
    IN  IF time = <<>> THEN NoneDT
        ELSE <<date[1], date[2], date[3], time[1], time[2]>>

\* _parse_links
SdParseLinks(event) ==
    <<SdWebcasts>>
    \o (IF Truthy(event.href)
        THEN <<[href |-> event.href, title |-> <<"Meeting materials">>]>> ELSE <<>>)

\* parse, lines 65-83: the events of one day
RECURSIVE SdEvents(_, _, _, _, _)
SdEvents(sp, date, events, url, t) ==
    IF events = <<>> THEN [out |-> <<>>, raised |-> FALSE]
    ELSE LET event == Head(events)
             start == SdParseStart(date, event)
             meeting == Meeting(event.title, EmptyS, SdParseClassification(event.title),
                                start, NoneDT, FALSE, EmptyS, SdLocation,
                                SdParseLinks(event), url)
             rest == SdEvents(sp, date, Tail(events), url, t)
         IN  IF event.title = NoneS THEN [out |-> <<>>, raised |-> TRUE]
             ELSE IF Contains(Lower(event.title), <<"legislative", " ", "recess">>) THEN rest
             ELSE IF start = NoneDT THEN [out |-> <<>>, raised |-> TRUE]
             ELSE [out |-> <<Finish(sp, meeting, EmptyS, t)>> \o rest.out,
                   raised |-> rest.raised]

\* parse
RECURSIVE SdParse(_, _, _, _)
SdParse(sp, days, url, t) ==
    IF days = <<>> THEN [out |-> <<>>, raised |-> FALSE]
    ELSE LET day == Head(days)
             today == SdEvents(sp, SdDate(day), day.events, url, t)
             rest == SdParse(sp, Tail(days), url, t)
         IN  IF SdParseDate(day) = "raise" THEN [out |-> <<>>, raised |-> TRUE]
             ELSE IF today.raised THEN today
             ELSE [out |-> today.out \o rest.out, raised |-> rest.raised]

----------------------------------------------------------------------------
(* Chula Vista: the spiders and the responses of the calendar endpoint *)

CvSpiders ==
    {[kind |-> "chula", name |-> <<"chula_vista_board_of_ethics">>,
      agency |-> <<"City of Chula Vista - Board of Ethics">>,
      meeting_view_id |-> 15, allowed_meeting_types |-> {},
      time_notes |-> <<"third Wednesday">>],
     [kind |-> "chula", name |-> <<"chula_vista_planning_commission">>,
      agency |-> <<"City of Chula Vista - Planning Commission">>,
      meeting_view_id |-> 11, allowed_meeting_types |-> {},
      time_notes |-> <<"second and fourth Wednesday">>],
     \* the same spider with the mixin's optional allowed_meeting_types set
     [kind |-> "chula", name |-> <<"chula_vista_planning_commission">>,
      agency |-> <<"City of Chula Vista - Planning Commission">>,
      meeting_view_id |-> 11, allowed_meeting_types |-> {<<"Commission">>},
      time_notes |-> <<"second and fourth Wednesday">>]}

CvStartDates ==
    {<<"2025", "/", "12", "/", "17", " ", "17", ":", "15", ":", "00">>,
     <<"2025", "/", "02", "/", "30", " ", "17", ":", "15", ":", "00">>,
     <<"12", "/", "17", "/", "2025">>,
     NoneS}

CvEndDate == <<"2025", "/", "12", "/", "17", " ", "18", ":", "15", ":", "00">>

CvDocA == [Url |-> <<"filestream.ashx?DocumentId=1">>, Title |-> <<"Agenda">>]
CvDocAAbs == [Url |-> CvBaseUrl \o <<"filestream.ashx?DocumentId=1">>,
              Title |-> <<"Agenda en Espanol">>]
CvDocSlash == [Url |-> <<"/", "filestream.ashx?DocumentId=1">>, Title |-> <<"Minutes">>]
CvDocPlaceholder == [Url |-> <<"<", "a href>">>, Title |-> <<"Agenda">>]
CvDocNoTitle == [Url |-> <<"filestream.ashx?DocumentId=2">>, Title |-> EmptyS]

\* the other members of a calendar item, by kind of item
CvRest ==
    {[MeetingType |-> <<"Board">>, EndDate |-> CvEndDate,
      MeetingDocumentLink |-> <<CvDocA, CvDocAAbs>>, HasVideo |-> TRUE],
     [MeetingType |-> <<"Commission">>, EndDate |-> NoneS,
      MeetingDocumentLink |-> <<CvDocPlaceholder, CvDocNoTitle, CvDocSlash, CvDocA>>,
      HasVideo |-> FALSE],
     [MeetingType |-> <<"Board">>, EndDate |-> <<"TBD">>,
      MeetingDocumentLink |-> <<>>, HasVideo |-> TRUE]}

CvItems ==
    {[MeetingType |-> r.MeetingType,
      MeetingName |-> <<"Board of Ethics Regular Meeting">>,
      StartDate |-> sd, EndDate |-> r.EndDate,
      Location |-> <<"City Hall">>,
      Description |-> <<"City Hall", "<br>", "276 Fourth Avenue">>,
      MeetingDocumentLink |-> r.MeetingDocumentLink,
      HasVideo |-> r.HasVideo,
      VideoUrl |-> CvBaseUrl \o <<"filestream.ashx?DocumentId=1">>] :
        sd \in CvStartDates, r \in CvRest}

CvBodies ==
    {[json |-> "invalid"], [json |-> "ok", d |-> "missing"], [json |-> "ok", d |-> "null"]}
    \cup {[json |-> "ok", d |-> "list", items |-> its] : its \in SeqsUpTo(CvItems, MaxItems)}

\* start_requests / _request_calendar_meetings
CvStartRequests(sp) == <<Request(CvApiUrl, "parse_calendar", <<>>)>>

----------------------------------------------------------------------------
(* National City: the spiders, the listing pages and the detail pages *)

NcStartYear == 2022

\* spiders/sandie_nationalcity.py, spider_configs (a part of the event types
\* of the second spider)
NcSpiders ==
    {[kind |-> "nc", name |-> <<"sandie_citycouncil">>,
      agency |-> <<"Sandie City Council">>,
      event_type_is |-> "str", event_type |-> <<"City", " ", "Council">>,
      start_year |-> NcStartYear, time_notes |-> EmptyS, location |-> NcLocation],
     [kind |-> "nc", name |-> <<"sandie_boards_commissions">>,
      agency |-> <<"Sandie Boards and Commissions">>,
      event_type_is |-> "list",
      event_type |-> << <<"Planning", " ", "Commission">>,
                        <<"Public", " ", "Art", "s">>,
                        <<"Public", " ", "Art">>,
                        <<"Traffic", " ", "Safety">> >>,
      start_year |-> NcStartYear, time_notes |-> EmptyS, location |-> NcLocation]}

\* a subclass of the mixin that leaves event_type at the mixin's None
NcUntypedSpider ==
    [kind |-> "nc", name |-> <<"sandie_untyped">>,
     agency |-> <<"Sandie City Council">>,
     event_type_is |-> "none", event_type |-> NoneS,
     start_year |-> NcStartYear, time_notes |-> EmptyS, location |-> NcLocation]

Txt(text) == [a |-> FALSE, href |-> NoneS, text |-> text]
A(href, text) == [a |-> TRUE, href |-> href, text |-> text]

NcTitleCells ==
    {<<Txt(<<"City", " ", "Council", " ", "Meeting">>)>>,
     <<Txt(<<"Planning", " ", "Commission", " ", "and", " ", "Traffic", " ",
             "Safety", " ", "Committee">>)>>,
     <<Txt(<<"Planning", " ", "Commission", ",", " ", "Traffic", " ", "Safety">>)>>,
     <<Txt(<<"Public", " ", "Art", "s", "/", "City", " ", "Council">>)>>,
     <<Txt(<<"Potluck">>)>>}

NcDateCells ==
    {<<Txt(<<"11", "/", "20", "/", "2024", " ", "5", ":", "30", " ", "PM", " ", "-",
             " ", "6", ":", "30", " ", "PM">>)>>,
     <<Txt(<<"TBD">>)>>,
     <<Txt(<<"November", " ", "20", ",", " ", "2021">>)>>}

NcAgendaHref == <<"/", "DocumentCenter", "/", "View", "/", "1">>

NcLinkCells ==
    {<<>>,
     <<A(NcAgendaHref, <<"Planning", " ", "Commission", " ", "and", " ", "Council",
                         " ", "Agenda">>),
       A(NcHost \o NcAgendaHref, <<"Traffic", " ", "Safety", " ", "Minutes">>)>>,
     <<A(<<"/", "Home", "/", "Components", "/", "Calendar", "/", "Event", "/", "77">>,
         <<"Details">>),
       A(<<"DocumentCenter", "/", "View", "/", "2">>, NoneS)>>}

NcRowSet ==
    {[cells |-> <<tc, dc, lc>>] :
        tc \in NcTitleCells, dc \in NcDateCells, lc \in NcLinkCells}

\* the rows of the pages that list more than one row
NcCoreRows ==
    {[cells |-> <<tc, dc, lc>>] :
        tc \in {<<Txt(<<"City", " ", "Council", " ", "Meeting">>)>>,
                <<Txt(<<"Planning", " ", "Commission", " ", "and", " ", "Traffic",
                        " ", "Safety", " ", "Committee">>)>>},
        dc \in {<<Txt(<<"11", "/", "20", "/", "2024", " ", "5", ":", "30", " ", "PM",
                        " ", "-", " ", "6", ":", "30", " ", "PM">>)>>,
                <<Txt(<<"TBD">>)>>,
                <<Txt(<<"November", " ", "20", ",", " ", "2021">>)>>},
        lc \in {<<>>}}
    \cup {[cells |-> <<>>]}

MaxRows == 2
MaxPages == 2

NumTok(n) == CASE n = 1 -> "1" [] n = 2 -> "2" [] n = 3 -> "3" [] n = 4 -> "4"

NcListing == <<"/", "government", "/", "boards-commissions-committees", "/">>

PageNo(url) ==
    IF Contains(url, <<"-npage-">>) THEN Num(url[Len(url)]) ELSE 1

\* the pager of page n of the listing
NcNavs(n) ==
    {<<>>,
     <<A(<<"javascript:", "page(", "-npage-", ")">>, <<"Next", " ", ">>">>)>>,
     <<A(NcListing \o <<"-npage-", NumTok(n)>>, <<"Page", " ", NumTok(n)>>)>>}
    \cup IF n < MaxPages
         THEN {<<A(NcListing \o <<"-npage-", NumTok(n + 1)>>, <<"Page", " ", NumTok(n + 1)>>),
                 A(NcListing \o <<"-npage-", NumTok(n + 1), "#", "content">>,
                   <<"Next", " ", ">>">>)>>,
               <<A(<<"javascript:", "page(", "-npage-", ")">>, <<"Next", " ", ">>">>),
                 A(NcListing \o <<"-npage-", NumTok(n + 1)>>, <<"Next", " ", ">>">>)>>}
         ELSE {}

\* the first page of the listing, and the shorter pages that follow it
NcLaterRows ==
    {[cells |-> <<tc, dc, lc>>] :
        tc \in {<<Txt(<<"City", " ", "Council", " ", "Meeting">>)>>},
        dc \in {<<Txt(<<"11", "/", "20", "/", "2024", " ", "5", ":", "30", " ", "PM",
                        " ", "-", " ", "6", ":", "30", " ", "PM">>)>>},
        lc \in NcLinkCells}

NcPages(n) ==
    {[rows |-> rows, nav |-> nav] :
        rows \in IF n = 1
                 THEN [1..1 -> NcRowSet] \cup SeqsUpTo(NcCoreRows, MaxRows)
                 ELSE SeqsUpTo(NcLaterRows, 1),
        nav \in NcNavs(n)}

NcDetailPages ==
    {[li |-> FALSE, name |-> NoneS, street |-> NoneS, locality |-> NoneS,
      region |-> NoneS, address_text |-> EmptyS],
     [li |-> TRUE, name |-> NoneS, street |-> NoneS, locality |-> NoneS,
      region |-> NoneS, address_text |-> <<" ">>],
     [li |-> TRUE, name |-> <<"MLK Community Center">>,
      street |-> <<"140 E. 12th Street", ",">>, locality |-> <<"National City">>,
      region |-> <<"CA">>,
      address_text |-> <<"140 E. 12th Street", ",", " ", "\n", "National City", " ",
                         "CA", " ", "91950">>]}

\* start_requests
NcStartRequests(sp) == <<Request(NcStartUrl, "parse", <<>>)>>

----------------------------------------------------------------------------
(* Tulsa: the Granicus listing and the archive search results *)

TulsaSpider ==
    [kind |-> "tulsa", name |-> <<"tulok_citycouncil">>,
     agency |-> <<"Tulsa City Council">>]

GranicusUrl == <<"http", "s://tulsa-ok.granicus.com/ViewPublisher.php?view_id=4">>
ArchiveUrl == <<"http", "s://www.cityoftulsa.org/apps/TulsaCouncilArchive/Home/Search">>

GrDates ==
    {[has_date_cell |-> TRUE,
      date_cell |-> << <<"\n", "November", " ", "19", ",", " ", "2025">>, <<" ">>,
                       <<"-", " ", "5", ":", "00", " ", "PM">> >>,
      date_class |-> NoneS],
     [has_date_cell |-> TRUE,
      date_cell |-> << <<"December", " ", "2", " ", ",", " ", "2025", " ", "-", " ",
                         "13", ":", "30", " ", "PM">> >>,
      date_class |-> NoneS],
     [has_date_cell |-> FALSE, date_cell |-> <<>>,
      date_class |-> <<"November", " ", "19", ",", " ", "2025">>],
     [has_date_cell |-> FALSE, date_cell |-> <<>>, date_class |-> NoneS]}

GrLinks ==
    {[agenda_href |-> <<"//", "tulsa-ok.granicus.com/AgendaViewer.php?clip_id=7169">>,
      video_href |-> <<"javascript:void(0)">>],
     [agenda_href |-> <<"//", "tulsa-ok.granicus.com/AgendaViewer.php?clip_id=7168">>,
      video_href |-> <<"http", "s:", "//", "tulsa-ok.granicus.com/AgendaViewer.php?clip_id=7168">>]}

GrItems ==
    {[name |-> nm, has_date_cell |-> d.has_date_cell, date_cell |-> d.date_cell,
      date_class |-> d.date_class,
      agenda_href |-> l.agenda_href, video_href |-> l.video_href] :
        nm \in {<<" ", "Regular", " ", "Council", " ", "Meeting">>, NoneS},
        d \in GrDates, l \in GrLinks}

\* the items of the listings that hold more than one item
GrCoreItems ==
    {x \in GrItems :
        \/ /\ x.name # NoneS /\ x.has_date_cell /\ Len(x.date_cell) = 3
           /\ x.video_href = <<"javascript:void(0)">>
        \/ /\ x.name # NoneS /\ ~x.has_date_cell /\ x.date_class = NoneS
           /\ x.video_href = <<"javascript:void(0)">>
        \/ /\ x.name = NoneS /\ ~x.has_date_cell /\ x.date_class # NoneS
           /\ x.video_href # <<"javascript:void(0)">>}

GrListings == [1..1 -> GrItems] \cup SeqsUpTo(GrCoreItems, MaxItems)

ArDateCells ==
    {<<Txt(<<"1732098600">>), Txt(<<"11", "/", "20", "/", "2024">>),
       Txt(<<" ", "10", ":", "30", " ", "AM">>)>>,
     <<Txt(<<"11", "/", "20", "/", "2024", " ", "13", ":", "30", " ", "PM">>)>>,
     <<Txt(<<"TBD">>)>>,
     <<Txt(<<"1732098600">>)>>}

ArTypeCells ==
    {<<A(<<"/", "apps", "/", "doc", "/", "1">>, <<"Regular">>),
       A(<<"http", "s://www.cityoftulsa.org", "/", "apps", "/", "doc", "/", "1">>,
         <<"Agenda">>)>>,
     <<Txt(<<"Public", " ", "Works", " ", "Committee">>), A(<<"doc", "/", "2">>, NoneS)>>,
     <<>>}

ArRows ==
    {[cells |-> <<dc, tc>>] : dc \in ArDateCells, tc \in ArTypeCells}
    \cup {[cells |-> <<dc>>] : dc \in {<<Txt(<<"11", "/", "20", "/", "2024">>)>>}}

\* the rows of the result pages that hold more than one row
ArCoreRows ==
    {x \in ArRows :
        \/ Len(x.cells) = 1
        \/ /\ Len(x.cells) = 2 /\ Len(x.cells[1]) = 3 /\ Len(x.cells[2]) = 2
           /\ x.cells[2][1].a
        \/ /\ Len(x.cells) = 2 /\ x.cells[1] = <<Txt(<<"TBD">>)>>
           /\ Len(x.cells[2]) = 2 /\ ~x.cells[2][1].a}

ArResults == [1..1 -> ArRows] \cup SeqsUpTo(ArCoreRows, MaxRows)

SearchDates == {<<"06", "/", "04", "/", "2025">>}

\* current_date.strftime("%m/%d/%Y")
Strftime(n) ==
    LET date == CivilFrom(2024, 1, n)
        two(k) == IF k < 10 THEN Padded[k + 1] ELSE Decimal[k + 1]
    IN  <<two(date[2]), "/", two(date[3]), "/", YearTok(date[1])>>

\* timedelta(days=180)
WindowDays == 180

\* start_requests, lines 38-49: the loop over the days of the window, from
\* start_date to end_date, one search for each day that is a Wednesday
WednesdaySearches(start_date, end_date) ==
    LET days == [i \in 1..(end_date - start_date + 1) |-> start_date + i - 1]
        wednesdays == SelectSeq(days, LAMBDA current_date : Weekday(current_date) = 2)
    IN  [i \in DOMAIN wednesdays |->
            Request(ArchiveUrl \o <<"?Meeting_Date=">> \o Strftime(wednesdays[i])
                        \o <<"&Council_Meeting_Type=-1&btnMeetingSearch=Search">>,
                    "parse_archive", [search_date |-> Strftime(wednesdays[i])])]

\* start_requests on the day today
TulsaStartRequestsOn(today) ==
    <<Request(GranicusUrl, "parse_granicus", [search_date |-> NoneS])>>
    \o WednesdaySearches(today - WindowDays, today + WindowDays)

\* start_requests: the Granicus request and the archive searches (one Wednesday
\* of the window here); the last request is a search without a search date
TulsaStartRequests(sp) ==
    <<Request(GranicusUrl, "parse_granicus", [search_date |-> NoneS]),
      Request(ArchiveUrl, "parse_archive", [search_date |-> <<"06", "/", "04", "/", "2025">>]),
      Request(ArchiveUrl, "parse_archive", [search_date |-> NoneS])>>

----------------------------------------------------------------------------
(* San Diego: the calendar pages *)

SdSpider ==
    [kind |-> "sd", name |-> <<"sandie_city_council">>,
     agency |-> <<"San Diego City Council">>, location |-> SdLocation]

SdBaseUrl == <<"http", "s://www.sandiego.gov/city-clerk/officialdocs/meetings-calendar">>

SdEventSet ==
    {[title |-> <<"City", " ", "Council">>, time |-> <<"10", ":", "00", " ", "AM">>,
      href |-> <<"/", "city-clerk", "/", "officialdocs", "/", "1">>],
     [title |-> <<"City", " ", "Council">>, time |-> NoneS, href |-> NoneS],
     [title |-> <<"Rules", " ", "Committee">>, time |-> <<"TBD">>, href |-> NoneS],
     [title |-> <<"Legislative", " ", "Recess">>, time |-> NoneS, href |-> NoneS],
     [title |-> <<"Housing", " ", "Authority">>, time |-> <<"12", ":", "30", " ", "PM">>,
      href |-> SdWebcasts.href],
     [title |-> NoneS, time |-> <<"10", ":", "00", " ", "AM">>, href |-> NoneS]}

SdDayStamps == {<<"2024", "-", "02", "-", "26", "T12:00:00Z">>, NoneS}

SdPages ==
    {<<[datetime |-> d, events |-> es]>> :
        d \in SdDayStamps, es \in SeqsUpTo(SdEventSet, MaxRows)}
    \cup {<<[datetime |-> d1, events |-> e1], [datetime |-> d2, events |-> e2]>> :
            d1 \in SdDayStamps, d2 \in SdDayStamps,
            e1 \in SeqsUpTo(SdEventSet, 1), e2 \in SeqsUpTo(SdEventSet, 1)}

\* start_requests: the pages of this month and of the next
\* the day, counted from 2024-01-01, of the date d of month m of year y
RECURSIVE DayNumber(_, _, _)
DayNumber(y, m, d) ==
    IF m > 1 THEN DayNumber(y, m - 1, d) + DaysIn(y, m - 1)
    ELSE IF y > 2024 THEN DayNumber(y - 1, 12, d) + DaysIn(y - 1, 12)
    ELSE d - 1

\* the n-th Sunday of month m of year y, as a day counted from 2024-01-01
NthSunday(y, m, n) ==
    CHOOSE day \in DayNumber(y, m, 7 * n - 6)..DayNumber(y, m, 7 * n) : Weekday(day) = 6

\* pytz.timezone("America/Los_Angeles"): daylight time runs from 02:00 standard
\* time of the second Sunday of March to 02:00 daylight time of the first
\* Sunday of November; utc is in seconds since 2024-01-01 00:00 UTC
DaylightTime(y, utc) ==
    /\ utc >= NthSunday(y, 3, 2) * 86400 + 10 * 3600
    /\ utc < NthSunday(y, 11, 1) * 86400 + 9 * 3600

\* tz.localize(datetime(y, m, 1, 1, 0)).timestamp(): standard time (UTC-8) where
\* it is in force at that wall-clock time, as it is when the time is ambiguous
\* (is_dst=False), daylight time (UTC-7) otherwise; 2024-01-01 00:00 UTC is
\* 19723 days after the epoch
MonthTimestamp(y, m) ==
    LET wall == DayNumber(y, m, 1) * 86400 + 1 * 3600
        utc == IF DaylightTime(y, wall + 8 * 3600) THEN wall + 7 * 3600 ELSE wall + 8 * 3600
    IN  19723 * 86400 + utc

\* f"{current_month_ts}": the decimal digits of an integer
RECURSIVE DecimalDigits(_)
DecimalDigits(n) == IF n < 10 THEN <<Decimal[n + 1]>> ELSE DecimalDigits(n \div 10) \o <<Decimal[(n % 10) + 1]>>

\* a month later counted as 30 days
ThirtyDaysAfter(y, m) == CivilFrom(2024, 1, DayNumber(y, m, 1) + 30)

\* start_of_current_month + timedelta(days=31)
NextMonth(y, m) == CivilFrom(2024, 1, DayNumber(y, m, 1) + 31)

\* start_requests at the local date today (now.year, now.month, now.day)
SdStartRequestsAt(today) ==
    LET next_month == NextMonth(today[1], today[2])
        current_month_ts == MonthTimestamp(today[1], today[2])
        next_month_ts == MonthTimestamp(next_month[1], next_month[2])
    IN  <<Request(SdBaseUrl \o <<"?calendar_timestamp=">> \o DecimalDigits(current_month_ts), "parse", <<>>),
          Request(SdBaseUrl \o <<"?calendar_timestamp=">> \o DecimalDigits(next_month_ts), "parse", <<>>)>>

SdStartRequests(sp) ==
    <<Request(SdBaseUrl \o <<"?calendar_timestamp=", "this month">>, "parse", <<>>),
      Request(SdBaseUrl \o <<"?calendar_timestamp=", "next month">>, "parse", <<>>)>>

----------------------------------------------------------------------------
(* Class creation: the metaclasses of the two mixins and create_spiders *)

\* required_static_vars of the metaclass of a family
RequiredStaticVars(family) ==
    IF family = "nc" THEN <<"agency", "name", "event_type">>
    ELSE <<"agency", "name", "meeting_view_id">>

\* a metaclass that reports the first missing name only
MissingVarsFirstOnly(family, dct) ==
    LET all == SelectSeq(RequiredStaticVars(family), LAMBDA v : v \notin dct)
    IN  IF all = <<>> THEN <<>> ELSE <<Head(all)>>

\* [var for var in required_static_vars if var not in dct]
MissingVars(family, dct) ==
    SelectSeq(RequiredStaticVars(family), LAMBDA v : v \notin dct)

\* ", ".join(missing)
RECURSIVE JoinNames(_)
JoinNames(names) ==
    IF names = <<>> THEN <<>>
    ELSE IF Len(names) = 1 THEN names
    ELSE <<Head(names), ", ">> \o JoinNames(Tail(names))

\* __init__ of the metaclass: the exception it raises for the class `name`
\* with the attribute dictionary keys `dct`, or NoError
MetaInit(family, name, dct) ==
    LET missing == MissingVars(family, dct)
    IN  IF missing = <<>> THEN NoError
        ELSE [exc |-> "NotImplementedError",
              message |->
                  IF family = "nc"
                  THEN <<name, " must define the following static variable(s): ">>
                       \o JoinNames(missing) \o <<".">>
                  ELSE <<name, " must define: ">> \o JoinNames(missing)]

\* type(name, (Mixin,), attrs), or a class statement: the namespace binding it
\* makes when the metaclass accepts the class
Bind(ns, family, name, dct) ==
    {c \in ns : c.class_name # name}
    \cup {[class_name |-> name, family |-> family, dct |-> dct]}

\* the keys of a configuration of each spider module
NcConfig(class_name, name) ==
    [class_name |-> class_name, name |-> name,
     keys |-> {"class_name", "name", "agency", "event_type"}]

CvConfig(class_name, name) ==
    [class_name |-> class_name, name |-> name,
     keys |-> {"class_name", "name", "agency", "id", "meeting_view_id", "time_notes"}]

\* spider_configs of the two spider modules
SpiderConfigs(family) ==
    IF family = "nc"
    THEN <<NcConfig("SandieCityCouncilSpider", "sandie_citycouncil"),
           NcConfig("SandieBoardsCommissionsSpider", "sandie_boards_commissions")>>
    ELSE <<
           CvConfig("ChulaVistaBoardOfEthicsSpider", "chula_vista_board_of_ethics"),
           CvConfig("ChulaVistaBoardOfAppealsAdvisorsSpider", "chula_vista_board_of_appeals_advisors"),
           CvConfig("ChulaVistaBoardOfLibraryTrusteesSpider", "chula_vista_board_of_library_trustees"),
           CvConfig("ChulaVistaCharterReviewCommissionSpider", "chula_vista_charter_review_commission"),
           CvConfig("ChulaVistaCivilServiceCommissionSpider", "chula_vista_civil_service_commission"),
           CvConfig("ChulaVistaCulturalArtsCommissionSpider", "chula_vista_cultural_arts_commission"),
           CvConfig("ChulaVistaHealthWellnessAgingCommissionSpider", "chula_vista_health_wellness_aging_commission"),
           CvConfig("ChulaVistaHousingHomelessnessAdvisoryCommissionSpider", "chula_vista_housing_homelessness_advisory_commission"),
           CvConfig("ChulaVistaHumanRelationsCommissionSpider", "chula_vista_human_relations_commission"),
           CvConfig("ChulaVistaParksRecreationCommissionSpider", "chula_vista_parks_recreation_commission"),
           CvConfig("ChulaVistaPlanningCommissionSpider", "chula_vista_planning_commission"),
           CvConfig("ChulaVistaPrivacyProtectionTechnologyAdvisoryCommissionSpider", "chula_vista_privacy_protection_technology_advisory_commission"),
           CvConfig("ChulaVistaSustainabilityCommissionSpider", "chula_vista_sustainability_commission"),
           CvConfig("ChulaVistaTrafficSafetyCommissionSpider", "chula_vista_traffic_safety_commission"),
           CvConfig("ChulaVistaVeteransAdvisoryCommissionSpider", "chula_vista_veterans_advisory_commission"),
           CvConfig("ChulaVistaMeasureACitizensOversightCommitteeSpider", "chula_vista_measure_a_citizens_oversight_committee"),
           CvConfig("ChulaVistaMeasurePCitizensOversightCommitteeSpider", "chula_vista_measure_p_citizens_oversight_committee"),
           CvConfig("ChulaVistaPoliceCommunityAdvisoryCommitteeSpider", "chula_vista_police_community_advisory_committee")>>

\* attrs = {k: v for k, v in config.items() if k != "class_name"}
Attrs(config) == config.keys \ {"class_name"}

\* create_spiders without the test `class_name not in globals()`
RECURSIVE CreateSpidersAlways(_, _, _)
CreateSpidersAlways(family, k, ns) ==
    LET configs == SpiderConfigs(family)
        config == configs[k]
    IN  IF k > Len(configs) THEN [ns |-> ns, error |-> NoError]
        ELSE CreateSpidersAlways(family, k + 1,
                                 Bind(ns, family, config.class_name, Attrs(config)))

\* create_spiders: the namespace and the exception after the loop over the
\* configurations from the k-th on
RECURSIVE CreateSpidersFrom(_, _, _)
CreateSpidersFrom(family, k, ns) ==
    LET configs == SpiderConfigs(family)
        config == configs[k]
        e == MetaInit(family, config.class_name, Attrs(config))
    IN  IF k > Len(configs) THEN [ns |-> ns, error |-> NoError]
        ELSE IF \E c \in ns : c.class_name = config.class_name
        THEN CreateSpidersFrom(family, k + 1, ns)
        ELSE IF e # NoError THEN [ns |-> ns, error |-> e]
        ELSE CreateSpidersFrom(family, k + 1,
                               Bind(ns, family, config.class_name, Attrs(config)))

\* the namespace after both spider modules are imported
Loaded == CreateSpidersFrom("cv", 1, CreateSpidersFrom("nc", 1, {}).ns).ns

Families == {"nc", "cv"}
ClassNames == {"IncompleteSpider", "SandieCityCouncilSpider"}
AttrNames == {"agency", "name", "event_type", "meeting_view_id"}

InitLoad ==
    /\ spider = TulsaSpider
    /\ library = "raise"
    /\ now = <<2024, 1, 1, 0, 0>>
    /\ pc = "load"
    /\ cb = NoCb
    /\ out = <<>>
    /\ raised = FALSE
    /\ sched = <<>>
    /\ first = NoFirst
    /\ namespace = {}
    /\ decl = NoDecl
    /\ error = NoError

\* a spider module is imported: create_spiders runs
CreateSpiders ==
    \E family \in Families :
        LET r == CreateSpidersFrom(family, 1, namespace)
        IN  /\ pc = "load"
            /\ namespace' = r.ns
            /\ error' = r.error
            /\ decl' = [class_name |-> "create_spiders", family |-> family, dct |-> {}]
            /\ UNCHANGED <<spider, library, now, pc, cb, out, raised, sched, first>>

\* a class statement with one of the mixins as its base
DeclareClass ==
    \E family \in Families, name \in ClassNames, dct \in SUBSET AttrNames :
        LET e == MetaInit(family, name, dct)
        IN  /\ pc = "load"
            /\ decl' = [class_name |-> name, family |-> family, dct |-> dct]
            /\ error' = e
            /\ namespace' = IF e = NoError THEN Bind(namespace, family, name, dct)
                            ELSE namespace
            /\ UNCHANGED <<spider, library, now, pc, cb, out, raised, sched, first>>

NextLoad == CreateSpiders \/ DeclareClass

SpecLoad == InitLoad /\ [][NextLoad]_vars

----------------------------------------------------------------------------
(* The crawl: the engine answers scheduled requests by calling their       *)
(* callbacks and collects what the callbacks yield                         *)

Spiders == CvSpiders \cup NcSpiders \cup {NcUntypedSpider, TulsaSpider, SdSpider}

StartRequests(sp) ==
    CASE sp.kind = "chula" -> CvStartRequests(sp)
      [] sp.kind = "nc" -> NcStartRequests(sp)
      [] sp.kind = "tulsa" -> TulsaStartRequests(sp)
      [] sp.kind = "sd" -> SdStartRequests(sp)

Remove(s, i) == SubSeq(s, 1, i - 1) \o SubSeq(s, i + 1, Len(s))

\* the library's answer to a null start is fixed for a crawl; only the National
\* City callbacks hand a null start to the library, so for the other spiders
\* one value stands for both
Init ==
    /\ spider \in Spiders
    /\ library \in IF spider.kind = "nc" THEN LibOutcomes ELSE {"raise"}
    /\ now = <<2024, 1, 1, 0, 0>>
    /\ pc = "idle"
    /\ cb = NoCb
    /\ out = <<>>
    /\ raised = FALSE
    /\ sched = StartRequests(spider)
    /\ first = NoFirst
    /\ namespace = Loaded
    /\ decl = NoDecl
    /\ error = NoError

\* the callback `name` of the spider applied to the response `resp` of the
\* request `req` at the instant t
Apply(sp, name, req, resp, t, l) ==
    CASE name = "parse_calendar" -> ParseCalendar(sp, resp, t)
      [] name = "parse" /\ sp.kind = "nc" -> NcParse(sp, resp, req.url, t, l)
      [] name = "parse_detail" -> ParseDetail(sp, req.meta, resp, t, l)
      [] name = "parse_granicus" -> ParseGranicus(sp, resp, req.url, t)
      [] name = "parse_archive" -> ParseArchive(sp, resp, req.meta, req.url, t)
      [] name = "parse" /\ sp.kind = "sd" -> SdParse(sp, resp, req.url, t)

\* the engine hands the response of the i-th scheduled request to its
\* callback, which yields res
Called(name, resp, i, res) ==
    /\ pc = "idle"
    /\ pc' = "yielded"
    /\ cb' = [name |-> name, req |-> sched[i], resp |-> resp, at |-> now]
    /\ out' = res.out
    /\ raised' = res.raised
    /\ sched' = Remove(sched, i)
    /\ UNCHANGED <<spider, library, now, first, namespace, decl, error>>

CallParseCalendar ==
    \E i \in DOMAIN sched : \E body \in CvBodies :
        /\ sched[i].callback = "parse_calendar"
        /\ Called("parse_calendar", body, i, ParseCalendar(spider, body, now))

CallNcParse ==
    \E i \in DOMAIN sched :
        /\ spider.kind = "nc"
        /\ sched[i].callback = "parse"
        /\ \E page \in NcPages(PageNo(sched[i].url)) :
              Called("parse", page, i, NcParse(spider, page, sched[i].url, now, library))

CallParseDetail ==
    \E i \in DOMAIN sched : \E page \in NcDetailPages :
        /\ sched[i].callback = "parse_detail"
        /\ Called("parse_detail", page, i,
                  ParseDetail(spider, sched[i].meta, page, now, library))

CallParseGranicus ==
    \E i \in DOMAIN sched : \E items \in GrListings :
        /\ sched[i].callback = "parse_granicus"
        /\ Called("parse_granicus", items, i,
                  ParseGranicus(spider, items, sched[i].url, now))

CallParseArchive ==
    \E i \in DOMAIN sched : \E rows \in ArResults :
        /\ sched[i].callback = "parse_archive"
        /\ Called("parse_archive", rows, i,
                  ParseArchive(spider, rows, sched[i].meta, sched[i].url, now))

CallSdParse ==
    \E i \in DOMAIN sched :
        /\ spider.kind = "sd"
        /\ sched[i].callback = "parse"
        /\ \E days \in SdPages :
              Called("parse", days, i, SdParse(spider, days, sched[i].url, now))

\* the engine takes the yielded records to the pipeline and schedules the requests
Collect ==
    /\ pc = "yielded"
    /\ pc' = "idle"
    /\ cb' = NoCb
    /\ out' = <<>>
    /\ raised' = FALSE
    /\ sched' = sched \o Requests(out)
    /\ UNCHANGED <<spider, library, now, first, namespace, decl, error>>

Tick ==
    /\ pc = "idle"
    /\ \E t \in Instants : Before(now, t) /\ now' = t
    /\ UNCHANGED <<spider, library, pc, cb, out, raised, sched, first, namespace, decl, error>>

Next ==
    \/ CallParseCalendar
    \/ CallNcParse
    \/ CallParseDetail
    \/ CallParseGranicus
    \/ CallParseArchive
    \/ CallSdParse
    \/ Collect
    \/ Tick

Spec == Init /\ [][Next]_vars

----------------------------------------------------------------------------
(* The helpers of the spiders applied to texts: a helper is called with an  *)
(* argument and returns a value.                                            *)

MaxWords == 3

\* the words of a title, with a blank between them
RECURSIVE JoinWords(_)
JoinWords(ws) ==
    IF ws = <<>> THEN <<>>
    ELSE IF Len(ws) = 1 THEN <<ws[1]>>
    ELSE <<ws[1], " ">> \o JoinWords(Tail(ws))

TitleWords ==
    {"Commission", "ADVISORY", "Committee", "Board", "Council", "Potluck"}

Titles == {JoinWords(ws) : ws \in SeqsUpTo(TitleWords, MaxWords)}

InitText ==
    /\ spider = NcUntypedSpider
    /\ library = "raise"
    /\ now = <<2024, 1, 1, 0, 0>>
    /\ pc = "idle"
    /\ cb = NoCb
    /\ out = <<>>
    /\ raised = FALSE
    /\ sched = <<>>
    /\ first = NoFirst
    /\ namespace = Loaded
    /\ decl = NoDecl
    /\ error = NoError

\* the helper `name` is called with arg and returns value
Returned(name, arg, value) ==
    /\ pc = "idle"
    /\ pc' = "returned"
    /\ cb' = [name |-> name, arg |-> arg]
    /\ out' = <<value>>
    /\ UNCHANGED <<spider, library, now, raised, sched, first, namespace, decl, error>>

NcClassify ==
    \E title \in Titles :
        Returned("_parse_classification_from_title", title,
                 ClassificationFromTitle(title))

TulsaTitles ==
    Titles \cup {NoneS, EmptyS}
    \cup {JoinWords(ws) :
            ws \in SeqsUpTo({"Public", "Works", "Regular", "Special", "COUNCIL"}, MaxWords)}

SdTitles ==
    {JoinWords(ws) :
        ws \in SeqsUpTo({"Council", "Committee", "Authority", "Recess"}, MaxWords)}

TulsaClassify ==
    \E title \in TulsaTitles :
        Returned("tulsa _parse_classification", title, TulsaParseClassification(title))

CvClassify ==
    \E title \in Titles :
        Returned("chula _parse_classification", title,
                 CvParseClassification([MeetingType |-> title]))

SdClassify ==
    \E title \in SdTitles :
        Returned("sd _parse_classification", title, SdParseClassification(title))

\* the texts of dates
FullName ==
    <<"January", "February", "March", "April", "May", "June", "July", "August",
      "September", "October", "November", "December">>

AbbrName ==
    <<"Jan", "Feb", "Mar", "Apr", "May", "Jun", "Jul", "Aug", "Sep", "Oct", "Nov", "Dec">>

\* 'M/D/YYYY', 'YYYY-M-D', '<full month name> D, YYYY', '<abbreviated month> D, YYYY'
DateForm(k, date) ==
    LET y == YearTok(date[1])
        m == date[2]
        d == Decimal[date[3] + 1]
    IN  CASE k = 1 -> <<Decimal[m + 1], "/", d, "/", y>>
          [] k = 2 -> <<y, "-", Decimal[m + 1], "-", d>>
          [] k = 3 -> <<FullName[m], " ", d, ",", " ", y>>
          [] k = 4 -> <<AbbrName[m], " ", d, ",", " ", y>>

\* year, month and day, among them days the month does not have
CalendarDates == {2024, 2025} \X (1..12) \X {1, 9, 15, 28, 29, 30, 31}

CoreDates == {<<2024, 2, 29>>, <<2025, 5, 1>>, <<2025, 2, 30>>, <<2024, 12, 31>>}

NoDateTexts ==
    {<<>>, <<"Potluck">>, <<"13", "/", "1", "/", "2024">>, <<"6", ":", "00", " ", "PM">>,
     <<"2025", "-", "2", "-", "30">>, <<"Potluck", " ", "9", ",", " ", "2024">>,
     <<"1", "/", "9">>}

DateTexts ==
    {DateForm(k, date) : k \in 1..4, date \in CalendarDates}
    \cup {DateForm(j, a) \o <<" ">> \o DateForm(k, b) :
            j \in 1..4, a \in CoreDates, k \in 1..4, b \in CoreDates}
    \cup NoDateTexts

NcParseDate ==
    \E text \in DateTexts : Returned("_parse_date", text, ParseDate(text))

\* the texts of clock times: 'h:mm AM', 'h AM'
ClockText(h, m, p) ==
    <<Decimal[h + 1], ":", IF m < 10 THEN Padded[m + 1] ELSE Decimal[m + 1], " ", p>>

HourText(h, p) == <<Decimal[h + 1], " ", p>>

Periods == {"AM", "PM"}

LeapDay == <<2024, 2, 29>>

ValidCoreDates == {date \in CoreDates : Date(date[1], date[2], date[3]) # NoneDT}

\* a date and a clock time
ClockDateTexts ==
    {DateForm(1, LeapDay) \o <<" ">> \o ClockText(h, m, p) :
        h \in 1..12, m \in 0..59, p \in Periods}
    \cup {DateForm(k, date) \o <<" ">> \o ClockText(h, 5, p) :
            k \in 2..4, date \in ValidCoreDates, h \in {1, 11, 12}, p \in Periods}

\* a date and an hour
HourDateTexts ==
    {DateForm(k, date) \o <<" ">> \o HourText(h, p) :
        k \in 1..4, date \in ValidCoreDates, h \in 1..12, p \in Periods}

\* a date, an hour and then a clock time
HourThenClockTexts ==
    {DateForm(k, date) \o <<" ">> \o HourText(6, "PM") \o <<" ">> \o ClockText(7, 30, "PM") :
        k \in 1..4, date \in ValidCoreDates}

\* clock times that no day has
BadClocks ==
    {<<"13", ":", "30", " ", "PM">>, <<"6", ":", "75", " ", "PM">>,
     <<"6", ":", "30">>, <<"PM">>, <<"30", " ", "AM">>}

DatetimeTexts ==
    ClockDateTexts \cup HourDateTexts \cup HourThenClockTexts
    \cup NoDateTexts
    \cup {DateForm(k, date) : k \in 1..4, date \in CoreDates}
    \cup {DateForm(k, date) \o <<" ">> \o c :
            k \in 1..4, date \in CoreDates, c \in BadClocks}

NcExtractDatetime ==
    \E text \in DatetimeTexts :
        Returned("_extract_datetime", text, ExtractDatetime(text))

\* the texts of the cells of a row
MaxCells == 3

MayDay == <<2025, 5, 1>>

StartCellTexts ==
    <<<<"Potluck">>,
      DateForm(1, LeapDay),
      DateForm(3, MayDay),
      DateForm(1, LeapDay) \o <<" ">> \o ClockText(6, 30, "PM"),
      DateForm(3, MayDay) \o <<" ">> \o HourText(7, "PM"),
      DateForm(2, MayDay) \o <<" ">> \o ClockText(12, 0, "AM"),
      DateForm(1, LeapDay) \o <<" ", "13", ":", "30", " ", "PM">>,
      ClockText(6, 30, "PM")>>

RowOfTexts(texts) == [cells |-> [i \in DOMAIN texts |-> <<Txt(texts[i])>>]]

StartRows ==
    {RowOfTexts(texts) : texts \in SeqsUpTo(Range(StartCellTexts), MaxCells)}

NcParseStartOfRow ==
    \E row \in StartRows : Returned("_parse_start", row, NcParseStart(row))

\* the texts of time ranges: a date, a start time, and what follows it
NoDate == <<0, 0, 0>>

EndDates == {NoDate, LeapDay, MayDay, <<2025, 2, 30>>}

EndDateTexts ==
    {[text |-> <<>>, date |-> NoDate]}
    \cup {[text |-> DateForm(k, date), date |-> date] :
            k \in 1..4, date \in EndDates \ {NoDate}}

StartTexts == {<<>>, ClockText(5, 30, "PM")}

RangeSeparators == {<<"-", " ">>, <<"-">>, <<"to", " ">>, <<"To", " ">>}

\* what follows the start time; h is 0 where no time follows a separator
RangeTexts ==
    {[text |-> sep \o ClockText(h, 5, p), h |-> h, p |-> p] :
        sep \in RangeSeparators, h \in {1, 11, 12}, p \in Periods}
    \cup {[text |-> t, h |-> 0, p |-> "AM"] :
            t \in {<<>>, ClockText(6, 5, "PM"), <<"to">> \o ClockText(6, 5, "PM"),
                   <<"-", " ">> \o HourText(7, "PM"), <<"to", " ">> \o HourText(7, "PM"),
                   <<"-", " ", "6", ":", "05">>}}

EndText(d, s, r) ==
    Join(SelectSeq(<<d.text, s, r.text>>, LAMBDA part : part # <<>>))

EndTexts == {EndText(d, s, r) : d \in EndDateTexts, s \in StartTexts, r \in RangeTexts}

NcExtractEndDatetime ==
    \E text \in EndTexts :
        Returned("_extract_end_datetime", text, ExtractEndDatetime(text))

EndCellTexts ==
    <<<<"Potluck">>,
      DateForm(1, LeapDay),
      DateForm(1, LeapDay) \o <<" ">> \o ClockText(5, 30, "PM") \o <<" ", "-", " ">>
          \o ClockText(6, 5, "PM"),
      DateForm(3, MayDay) \o <<" ">> \o HourText(10, "AM") \o <<" ", "to", " ">>
          \o ClockText(11, 5, "AM"),
      ClockText(6, 30, "PM") \o <<" ", "-", " ">> \o ClockText(7, 5, "PM")>>

EndRows ==
    {RowOfTexts(texts) : texts \in SeqsUpTo(Range(EndCellTexts), MaxCells)}

NcParseEndOfRow ==
    \E row \in EndRows : Returned("_parse_end", row, NcParseEnd(row))

\* the values of StartDate and EndDate; NoneS is a missing or null member
CvStamp(y, mo, d, h, mi, sec) == <<y, "/", mo, "/", d, " ", h, ":", mi, ":", sec>>

CvDateTexts ==
    {CvStamp("2025", "12", "17", "17", "15", "00"),
     CvStamp("2024", "02", "29", "00", "00", "59"),
     CvStamp("2025", "1", "5", "7", "05", "00"),
     <<"2025", "/", "12", "/", "17", " ", "\n", "17", ":", "15", ":", "00">>,
     CvStamp("2025", "02", "30", "17", "15", "00"),
     CvStamp("2025", "13", "01", "17", "15", "00"),
     CvStamp("2025", "12", "17", "24", "00", "00"),
     CvStamp("25", "12", "17", "17", "15", "00"),
     <<" ">> \o CvStamp("2025", "12", "17", "17", "15", "00"),
     <<"2025", "/", "12", "/", "17">>,
     <<"2025", "/", "12", "/", "17", " ", "17", ":", "15">>,
     <<"2025", "-", "12", "-", "17", " ", "17", ":", "15", ":", "00">>,
     <<"12", "/", "17", "/", "2025">>,
     <<"TBD">>, EmptyS, NoneS}

CvTimedItems ==
    {[MeetingType |-> type,
      MeetingName |-> <<"Board of Ethics Regular Meeting">>,
      StartDate |-> sd, EndDate |-> ed,
      Location |-> <<"City Hall">>,
      Description |-> <<"City Hall", "<br>", "276 Fourth Avenue">>,
      MeetingDocumentLink |-> <<CvDocA>>,
      HasVideo |-> FALSE,
      VideoUrl |-> EmptyS] :
        type \in {<<"Board">>, <<"Commission">>}, sd \in CvDateTexts, ed \in CvDateTexts}

CvParseDatetimeOf ==
    \E date_str \in CvDateTexts :
        Returned("chula _parse_datetime", date_str, CvParseDatetime(date_str))

CvCreateMeeting ==
    \E sp \in CvSpiders, item \in CvTimedItems :
        Returned("chula _create_meeting", [sp |-> sp, item |-> item],
                 CreateMeeting(sp, item, now))

\* the documents and the video of an item
MaxDocs == 2

CvDocEmptyUrl == [Url |-> EmptyS, Title |-> <<"Agenda">>]
CvDocNoUrl == [Url |-> NoneS, Title |-> <<"Minutes">>]
CvDocHttp == [Url |-> <<"http", "://example.org/minutes.pdf">>, Title |-> <<"Minutes">>]
CvDocUntitled == [Url |-> <<"filestream.ashx?DocumentId=3">>, Title |-> NoneS]

CvDocs ==
    {CvDocA, CvDocAAbs, CvDocSlash, CvDocPlaceholder, CvDocNoTitle,
     CvDocEmptyUrl, CvDocNoUrl, CvDocHttp, CvDocUntitled}

CvVideoUrls ==
    {EmptyS, NoneS, <<"Players/ISIStandAlonePlayer.aspx?Id=1">>,
     <<"http", "s://video.example.org/1">>}

CvLinkedItems ==
    {[MeetingType |-> <<"Board">>,
      MeetingName |-> <<"Board of Ethics Regular Meeting">>,
      StartDate |-> CvStamp("2025", "12", "17", "17", "15", "00"),
      EndDate |-> NoneS,
      Location |-> <<"City Hall">>,
      Description |-> <<"City Hall", "<br>", "276 Fourth Avenue">>,
      MeetingDocumentLink |-> docs,
      HasVideo |-> has,
      VideoUrl |-> video] :
        docs \in SeqsUpTo(CvDocs, MaxDocs), has \in BOOLEAN, video \in CvVideoUrls}

CvParseLinksOf ==
    \E item \in CvLinkedItems :
        Returned("chula _parse_links", item, CvParseLinks(item))

\* the Location and Description members of an item
CvLocations == {<<"City Hall">>, <<" ", "City Hall", " ">>, <<"Library">>, EmptyS, NoneS}

CvDescriptions ==
    {<<"City Hall", "<br>", "276 Fourth Avenue">>,
     <<"<p>", "276 Fourth Avenue", "</p>">>,
     <<"276 Fourth Avenue", " ", "\n", "Chula Vista">>,
     <<"City Hall">>, <<"<p>", "</p>">>, <<"<BR />">>, EmptyS, NoneS}

CvLocatedItems ==
    {[MeetingType |-> <<"Board">>,
      MeetingName |-> <<"Board of Ethics Regular Meeting">>,
      StartDate |-> CvStamp("2025", "12", "17", "17", "15", "00"),
      EndDate |-> NoneS,
      Location |-> location,
      Description |-> description,
      MeetingDocumentLink |-> <<>>,
      HasVideo |-> FALSE,
      VideoUrl |-> EmptyS] :
        location \in CvLocations, description \in CvDescriptions}

CvParseLocationOf ==
    \E item \in CvLocatedItems :
        Returned("chula _parse_location", item, CvParseLocation(item))

\* the days on which the crawl starts: 2024-07-01 and the days after it
TulsaTodays == 182..241

TulsaStart ==
    \E today \in TulsaTodays :
        Returned("tulsa start_requests", today, TulsaStartRequestsOn(today))

\* the local dates on which the crawl starts
SdNows == {<<y, m, d>> : y \in 2024..2026, m \in 1..12, d \in {1, 15, 28, 29, 30, 31}}

SdStart ==
    \E today \in SdNows :
        /\ today[3] <= DaysIn(today[1], today[2])
        /\ Returned("san diego start_requests", today, SdStartRequestsAt(today))

\* the <a> elements of a row: links to the calendar page of the event, with
\* and without the host, with a path before it, in small letters and padded
\* with blanks, and links to documents
MaxAnchors == 2

NcEventPath == <<"/", "Home", "/", "Components", "/", "Calendar", "/", "Event", "/", "77">>

NcLinkAnchors ==
    {A(NcEventPath, <<"Details">>),
     A(NcHost \o NcEventPath, <<"Planning", " ", "Commission">>),
     A(<<"cal">> \o NcEventPath, <<"Traffic", " ", "Safety">>),
     A(<<" ">> \o NcEventPath \o <<" ">>, NoneS),
     A(<<"/", "home", "/", "components", "/", "calendar", "/", "event", "/", "77">>,
       <<"Planning", " ", "Commission">>),
     A(NcAgendaHref, <<"Planning", " ", "Commission", " ", "and", " ", "Council",
                       " ", "Agenda">>),
     A(NcHost \o NcAgendaHref, <<"Traffic", " ", "Safety", " ", "Minutes">>),
     A(EmptyS, <<"Details">>)}

NcLinkedRows ==
    {[cells |-> <<tc, dc, lc>>] :
        tc \in {<<Txt(<<"City", " ", "Council", " ", "Meeting">>)>>,
                <<Txt(<<"Planning", " ", "Commission", " ", "and", " ", "Traffic",
                        " ", "Safety", " ", "Committee">>)>>},
        dc \in {<<Txt(<<"11", "/", "20", "/", "2024", " ", "5", ":", "30", " ", "PM">>)>>},
        lc \in SeqsUpTo(NcLinkAnchors, MaxAnchors)}

\* parse, lines 162-215: the detail URL of a row and its meeting_data_list
NcRowRecords ==
    \E sp \in NcSpiders, row \in NcLinkedRows :
        Returned("parse: row", [sp |-> sp, row |-> row],
                 [detail_url |-> GetDetailUrl(row),
                  meeting_data_list |-> MeetingDataList(sp, row, NcStartUrl)])

NextText ==
    \/ NcClassify
    \/ NcRowRecords
    \/ SdStart
    \/ TulsaStart
    \/ CvParseLocationOf
    \/ CvParseLinksOf
    \/ CvParseDatetimeOf
    \/ CvCreateMeeting
    \/ NcExtractEndDatetime
    \/ NcParseEndOfRow
    \/ NcParseStartOfRow
    \/ NcExtractDatetime
    \/ NcParseDate
    \/ TulsaClassify
    \/ CvClassify
    \/ SdClassify

SpecText == InitText /\ [][NextText]_vars

----------------------------------------------------------------------------
(* Parsing a response a second time: a callback is applied to a response,  *)
(* then to other responses, then to the first response again, while the    *)
(* clock moves on.  The responses hold one row, item or day at most.       *)

\* a listing page whose rows link to detail pages, one row with a date and
\* one without
NcDetailedRows ==
    {[cells |-> <<tc, dc, lc>>] :
        tc \in {<<Txt(<<"City", " ", "Council", " ", "Meeting">>)>>,
                <<Txt(<<"Planning", " ", "Commission", " ", "and", " ", "Traffic",
                        " ", "Safety", " ", "Committee">>)>>},
        dc \in {<<Txt(<<"11", "/", "20", "/", "2024", " ", "5", ":", "30", " ", "PM",
                        " ", "-", " ", "6", ":", "30", " ", "PM">>)>>,
                <<Txt(<<"TBD">>)>>},
        lc \in {<<A(<<"/", "Home", "/", "Components", "/", "Calendar", "/", "Event",
                      "/", "77">>, <<"Details">>)>>}}

\* the detail requests that parse yields for the rows of such a page
NcDetailRequests(sp, l) ==
    UNION {Range(SelectSeq(NcParse(sp, [rows |-> <<row>>, nav |-> <<>>],
                                   NcStartUrl, <<2024, 1, 1, 0, 0>>, l).out,
                           LAMBDA x : x.k = "request" /\ x.callback = "parse_detail")) :
              row \in NcDetailedRows}

\* the requests whose responses are parsed: the start requests and, for
\* National City, a detail request
ReparseScheds(sp, l) ==
    IF sp.kind = "nc" /\ sp.event_type_is # "none"
    THEN {StartRequests(sp) \o <<r>> : r \in NcDetailRequests(sp, l)}
    ELSE {StartRequests(sp)}

\* the responses parsed first and again
ReparseResponses(sp, req) ==
    CASE req.callback = "parse_calendar" ->
            {b \in CvBodies : b.json = "ok" /\ b.d = "list" => Len(b.items) <= 1}
      [] req.callback = "parse" /\ sp.kind = "nc" ->
            {[rows |-> <<row>>, nav |-> <<>>] : row \in NcRowSet}
            \cup {[rows |-> <<>>, nav |-> nav] : nav \in NcNavs(PageNo(req.url))}
      [] req.callback = "parse_detail" -> NcDetailPages
      [] req.callback = "parse_granicus" -> SeqsUpTo(GrItems, 1)
      [] req.callback = "parse_archive" -> SeqsUpTo(ArRows, 1)
      [] req.callback = "parse" /\ sp.kind = "sd" ->
            {<<[datetime |-> d, events |-> es]>> :
                d \in SdDayStamps, es \in SeqsUpTo(SdEventSet, 1)}

\* the responses parsed in between
OtherResponses(sp, req) ==
    CASE req.callback = "parse_calendar" ->
            {[json |-> "invalid"]}
            \cup {[json |-> "ok", d |-> "list", items |-> <<it>>] :
                    it \in {x \in CvItems : x.EndDate = CvEndDate /\ Len(x.StartDate) # 5}}
      [] req.callback = "parse" /\ sp.kind = "nc" ->
            {[rows |-> rows, nav |-> <<>>] :
                rows \in SeqsUpTo({r \in NcCoreRows : r.cells = <<>>}, 1)}
            \cup {[rows |-> <<r>>, nav |-> <<>>] :
                    r \in {x \in NcDetailedRows : x.cells[2][1].text = <<"TBD">>}}
      [] req.callback = "parse_detail" -> {p \in NcDetailPages : p.li}
      [] req.callback = "parse_granicus" ->
            SeqsUpTo({x \in GrItems : /\ x.name # NoneS /\ ~x.has_date_cell
                                      /\ x.video_href = <<"javascript:void(0)">>}, 1)
      [] req.callback = "parse_archive" ->
            SeqsUpTo({x \in ArRows : Len(x.cells) = 1}, 1)
      [] req.callback = "parse" /\ sp.kind = "sd" ->
            {<<[datetime |-> d, events |-> <<e>>]>> :
                d \in SdDayStamps, e \in {x \in SdEventSet : x.href # NoneS}}

InitReparse ==
    /\ spider \in Spiders
    /\ library \in IF spider.kind = "nc" THEN LibOutcomes ELSE {"raise"}
    /\ now = <<2024, 1, 1, 0, 0>>
    /\ pc = "idle"
    /\ cb = NoCb
    /\ out = <<>>
    /\ raised = FALSE
    /\ sched \in ReparseScheds(spider, library)
    /\ first = NoFirst
    /\ namespace = Loaded
    /\ decl = NoDecl
    /\ error = NoError

\* the callback of req is applied to resp and yields res
Parsed(req, resp, res, stage) ==
    /\ pc' = stage
    /\ cb' = [name |-> req.callback, req |-> req, resp |-> resp, at |-> now]
    /\ out' = res.out
    /\ raised' = res.raised
    /\ first' = IF stage = "parsed"
                THEN [name |-> req.callback, req |-> req, resp |-> resp, at |-> now,
                      out |-> res.out, raised |-> res.raised, spider |-> spider]
                ELSE first
    /\ UNCHANGED <<spider, library, now, sched, namespace, decl, error>>

ParseFirst ==
    /\ pc = "idle"
    /\ \E req \in Range(sched) :
       \E resp \in ReparseResponses(spider, req) :
          Parsed(req, resp, Apply(spider, req.callback, req, resp, now, library),
                 "parsed")

ParseOther ==
    /\ pc \in {"parsed", "between"}
    /\ \E req \in Range(sched) :
       \E resp \in OtherResponses(spider, req) :
          Parsed(req, resp, Apply(spider, req.callback, req, resp, now, library),
                 "between")

ParseAgain ==
    /\ pc \in {"parsed", "between"}
    /\ Parsed(first.req, first.resp,
              Apply(spider, first.name, first.req, first.resp, now, library),
              "reparsed")

Elapse ==
    /\ pc \in {"parsed", "between"}
    /\ \E t \in Instants : Before(now, t) /\ now' = t
    /\ UNCHANGED <<spider, library, pc, cb, out, raised, sched, first, namespace, decl, error>>

NextReparse == ParseFirst \/ ParseOther \/ ParseAgain \/ Elapse

SpecReparse == InitReparse /\ [][NextReparse]_vars

----------------------------------------------------------------------------
(* The claims *)

Emitted == Meetings(out)

C2_LinkDedup == \A i \in DOMAIN Emitted : NoDupHref(Emitted[i].links)

\* the source items of the response the last callback was given, the items
\* among them whose date or time the adapter cannot resolve, and the response
\* without its j-th item
Items(c) ==
    CASE c.name = "parse_calendar" -> c.resp.items
      [] c.name = "parse" /\ spider.kind = "nc" -> c.resp.rows
      [] c.name = "parse_detail" -> c.req.meta
      [] c.name = "parse" /\ spider.kind = "sd" -> c.resp
      [] OTHER -> c.resp

SdUnresolved(day) ==
    \/ SdParseDate(day) = "raise"
    \/ \E k \in DOMAIN day.events :
          /\ day.events[k].title # NoneS
          /\ SdParseStart(<<2024, 1, 1, 0, 0>>, day.events[k]) = NoneDT

Unresolved(c, j) ==
    CASE c.name = "parse_calendar" -> CvParseStart(c.resp.items[j]) = NoneDT
      [] c.name = "parse" /\ spider.kind = "nc" ->
            c.resp.rows[j].cells # <<>> /\ NcParseStart(c.resp.rows[j]) = NoneDT
      [] c.name = "parse_detail" -> c.req.meta[j].start = NoneDT
      [] c.name = "parse_granicus" -> ParseStartGranicus(c.resp[j]) = NoneDT
      [] c.name = "parse_archive" -> ArchiveStart(c.resp[j], c.req.meta) = NoneDT
      [] c.name = "parse" /\ spider.kind = "sd" -> SdUnresolved(c.resp[j])

Without(c, j) ==
    CASE c.name = "parse_calendar" ->
            [c EXCEPT !.resp.items = Remove(c.resp.items, j)]
      [] c.name = "parse" /\ spider.kind = "nc" ->
            [c EXCEPT !.resp.rows = Remove(c.resp.rows, j)]
      [] c.name = "parse_detail" -> [c EXCEPT !.req.meta = Remove(c.req.meta, j)]
      [] OTHER -> [c EXCEPT !.resp = Remove(c.resp, j)]

\* the last callback was given a well-formed list of items, none of them with
\* a defect other than in its date or time
WellFormed(c) ==
    CASE c.name = "none" -> FALSE
      [] c.name = "parse_calendar" -> c.resp.json = "ok" /\ c.resp.d = "list"
      [] c.name = "parse" /\ spider.kind = "sd" ->
            \A j \in DOMAIN c.resp : \A k \in DOMAIN c.resp[j].events :
                c.resp[j].events[k].title # NoneS
      [] OTHER -> TRUE

\* C3: an item whose date or time cannot be resolved is dropped alone: the
\* callback does not abort, and it emits what it emits for the same response
\* without that item.
C3_DropOneContinue ==
    (pc = "yielded" /\ WellFormed(cb)) =>
        \A j \in DOMAIN Items(cb) :
            Unresolved(cb, j) =>
                /\ ~raised
                /\ Emitted = Meetings(Apply(spider, cb.name, Without(cb, j).req,
                                            Without(cb, j).resp, cb.at, library).out)

\* C4: a body that is not valid JSON, or whose "d" member is missing or null,
\* makes parse_calendar yield nothing and raise nothing.
C4_MalformedJson ==
    (/\ pc = "yielded" /\ cb.name = "parse_calendar"
     /\ (cb.resp.json = "invalid" \/ cb.resp.d \in {"missing", "null"}))
        => (out = <<>> /\ ~raised)

\* the required names of the two families, as the claim lists them
C5_Required(family) ==
    IF family = "nc" THEN {"agency", "name", "event_type"}
    ELSE {"agency", "name", "meeting_view_id"}

\* C5: creating a class whose own attribute dictionary lacks a required name
\* raises NotImplementedError with a message that names every missing
\* attribute, and binds no class; a dictionary with all three is accepted and
\* the class is bound.  No class that lacks a required name is ever bound.
C5_FailFast ==
    /\ \A c \in namespace : C5_Required(c.family) \subseteq c.dct
    /\ decl.class_name \in ClassNames =>
          IF C5_Required(decl.family) \subseteq decl.dct
          THEN /\ error = NoError
               /\ [class_name |-> decl.class_name, family |-> decl.family,
                   dct |-> decl.dct] \in namespace
          ELSE /\ error.exc = "NotImplementedError"
               /\ decl.class_name = Head(error.message)
               /\ \A v \in C5_Required(decl.family) \ decl.dct :
                     v \in Range(error.message)
               /\ \A v \in decl.dct : v \notin Range(Tail(error.message))

\* a class statement that lacked two of the three names has just failed
C5_Witness ==
    /\ decl.class_name = "IncompleteSpider"
    /\ decl.family = "cv"
    /\ decl.dct = {"name", "event_type"}
    /\ error.exc = "NotImplementedError"
    /\ namespace # {}

\* the pending records the detail request of the last callback carried
Pending == cb.req.meta

\* C6: parse_detail emits exactly one record for every pending record of the
\* detail request, in the same order, all with the same location, which is
\* the location of the detail page or the fallback location, and with every
\* other field as prepared.
C6_DetailFanOut ==
    (pc = "yielded" /\ cb.name = "parse_detail") =>
        /\ Len(out) = Len(Pending)
        /\ \A i \in DOMAIN out :
              /\ out[i].k = "meeting"
              /\ out[i].location = out[1].location
              /\ out[i].location \in
                    {spider.location, ParseDetailLocation(spider, cb.resp)}
              /\ \A f \in DOMAIN Pending[i] : out[i][f] = Pending[i][f]

\* the rows of a listing page that pass the filters, and the pending records
\* of the rows among them without a detail link, row after row
Passing(page) == {i \in DOMAIN page.rows : ~RowSkipped(spider, page.rows[i])}

Detailed(page) == {i \in Passing(page) : GetDetailUrl(page.rows[i]) # NoneS}

DirectRecords(page, url) ==
    Flatten([i \in DOMAIN page.rows |->
                IF i \in Passing(page) \ Detailed(page)
                THEN MeetingDataList(spider, page.rows[i], url) ELSE <<>>])

DetailRequests == SelectSeq(Requests(out), LAMBDA r : r.callback = "parse_detail")

\* C7: for each row that passes the filters parse either issues exactly one
\* detail request that carries all pending records of the row, or emits each
\* pending record directly with the fallback location: one detail request
\* per row with a detail link, one record per pending record of the others.
C7_DetailOrDirect ==
    (pc = "yielded" /\ cb.name = "parse" /\ spider.kind = "nc") =>
        /\ Len(DetailRequests) = Cardinality(Detailed(cb.resp))
        /\ \A i \in Detailed(cb.resp) :
              \E k \in DOMAIN DetailRequests :
                  /\ DetailRequests[k].url = GetDetailUrl(cb.resp.rows[i])
                  /\ DetailRequests[k].meta =
                        MeetingDataList(spider, cb.resp.rows[i], cb.req.url)
        /\ Len(Emitted) = Len(DirectRecords(cb.resp, cb.req.url))
        /\ \A k \in DOMAIN Emitted :
              /\ Emitted[k].location = spider.location
              /\ Emitted[k].title = DirectRecords(cb.resp, cb.req.url)[k].title

\* the listing requests among what the last callback yielded, and the links
\* of a page that qualify as a link to the next page
ListingRequests(o) == {i \in DOMAIN o : o[i].k = "request" /\ o[i].callback = "parse"}

Qualifying(page) ==
    SelectSeq(Flatten([i \in DOMAIN page.rows |-> RowAnchors(page.rows[i])]) \o page.nav,
              LAMBDA n : /\ n.text # NoneS /\ n.href # NoneS
                         /\ Contains(n.text, <<"Next">>)
                         /\ Contains(n.href, <<"-npage-">>))

\* C8: parse issues at most one listing request, as the last thing it
\* yields; it issues none when the page has no link with 'Next' in its text
\* and '-npage-' in its href, or when the href of the first such link starts
\* with 'javascript:'; so never more than one listing request is outstanding,
\* and none is once such a page has been parsed.
C8_Pagination ==
    /\ spider.kind = "nc" =>
          Cardinality(ListingRequests(sched)) + Cardinality(ListingRequests(out)) <= 1
    /\ (pc = "yielded" /\ cb.name = "parse" /\ spider.kind = "nc") =>
          /\ \A i \in ListingRequests(out) : i = Len(out)
          /\ Qualifying(cb.resp) = <<>> => ListingRequests(out) = {}
          /\ (/\ Qualifying(cb.resp) # <<>>
              /\ StartsWith(Qualifying(cb.resp)[1].href, <<"javascript:">>))
                => ListingRequests(out) = {}
          /\ ListingRequests(out) = {} => ListingRequests(sched) = {}

\* the second page of the listing has been parsed: its rows gave a record and
\* its pager no further request, so that nothing is left to fetch
C8_Witness ==
    /\ pc = "yielded" /\ cb.name = "parse" /\ spider.kind = "nc"
    /\ Contains(cb.req.url, <<"-npage-">>)
    /\ Qualifying(cb.resp) # <<>>
    /\ Len(Emitted) = 1
    /\ ListingRequests(out) = {}
    /\ sched = <<>>

\* the records parse prepared for the only row of a one-row page: those the
\* detail request carries, or those it emitted
Prepared == IF DetailRequests # <<>> THEN DetailRequests[1].meta ELSE Emitted

C10_Indicators == {<<" ", "and", " ">>, <<" ", "&", " ">>, <<"/">>}

\* the split of a row, with the conjunction indicator looked for in the title
\* or in the text of the whole row
C10_Split(where) ==
    (/\ pc = "yielded" /\ cb.name = "parse" /\ spider.kind = "nc"
     /\ Len(cb.resp.rows) = 1 /\ ~RowSkipped(spider, cb.resp.rows[1])) =>
        LET row == cb.resp.rows[1]
            title == NcParseTitle(spider, row)
            text == IF where = "title" THEN title ELSE Join(RowTexts(row))
            matched == IF spider.event_type_is = "list"
                       THEN SelectSeq(spider.event_type,
                                      LAMBDA e : Contains(Lower(title), Lower(e)))
                       ELSE <<>>
        IN  IF /\ spider.event_type_is = "list"
               /\ \E ind \in C10_Indicators : Contains(Lower(text), ind)
               /\ Len(matched) >= 2
            THEN /\ Len(Prepared) = Len(matched)
                 /\ \A i \in DOMAIN Prepared :
                       /\ Prepared[i].title = matched[i] \o <<" ", "Meeting">>
                       /\ Prepared[i].start = NcParseStart(row)
                       /\ Prepared[i].end = NcParseEnd(row)
                       /\ Prepared[i].source = cb.req.url
            ELSE /\ Len(Prepared) = 1
                 /\ Prepared[1].title = title

\* C10: under a list configuration a row that contains a conjunction indicator
\* and whose title contains at least two configured keywords is split into one
\* record per matched keyword, in configuration order, each titled
\* "{event_type} Meeting" and sharing the row's start, end and source; any
\* other row, and any row under a string configuration, gives exactly one
\* record with the original title.
C10_SplitByRow == C10_Split("row")

\* What the code does for C10's rows: the conjunction indicator is looked for
\* in the title alone, and the records are those of a parse that did not raise.
C10_SplitByTitle == ~raised => C10_Split("title")

\* a row titled "Planning Commission and Traffic Safety Committee" was split
\* into the records of its two keywords
C10_Witness ==
    /\ pc = "yielded" /\ cb.name = "parse" /\ spider.kind = "nc"
    /\ Len(cb.resp.rows) = 1
    /\ Len(Prepared) = 2
    /\ Prepared[1].title = <<"Planning", " ", "Commission", " ", "Meeting">>
    /\ Prepared[2].title = <<"Traffic", " ", "Safety", " ", "Meeting">>
    /\ Prepared[1].start = Prepared[2].start
    /\ Prepared[1].start # NoneDT

\* the yield with the status of every record blanked
Unstamped(o) ==
    [i \in DOMAIN o |-> IF o[i].k = "meeting" THEN [o[i] EXCEPT !.status = ""] ELSE o[i]]

C11_Kept(row, e) ==
    LET kept == SelectSeq(RowAnchors(row),
                   LAMBDA n : /\ NcLinkOf(n) # <<>>
                              /\ \E w \in Range(Words(Lower(e))) :
                                    Contains(Lower(NcLinkOf(n)[1].original_title), w))
    IN  [i \in DOMAIN kept |->
            [href |-> NcLinkOf(kept[i])[1].href, title |-> NcLinkOf(kept[i])[1].title]]

\* C11: each record of a combined-meeting split keeps exactly the links of the
\* row, in their order, whose text before canonicalization contains a word of
\* the record's event type (case-insensitive), as href and canonical title
\* only, whatever the other records of the split keep.
C11_SplitLinks ==
    (/\ pc = "yielded" /\ cb.name = "parse" /\ spider.kind = "nc"
     /\ Len(cb.resp.rows) = 1 /\ Len(Prepared) >= 2) =>
        \A i \in DOMAIN Prepared :
            \E e \in Range(spider.event_type) :
                /\ Prepared[i].title = e \o <<" ", "Meeting">>
                /\ Prepared[i].links = C11_Kept(cb.resp.rows[1], e)

\* a row with an agenda of the planning commission and minutes of the traffic
\* safety committee was split: each record kept its own link
C11_Witness ==
    /\ pc = "yielded" /\ cb.name = "parse" /\ spider.kind = "nc"
    /\ Len(cb.resp.rows) = 1 /\ Len(Prepared) = 2
    /\ Len(NcParseLinks(cb.resp.rows[1])) = 2
    /\ Len(Prepared[1].links) = 1 /\ Prepared[1].links[1].title = <<"Agenda">>
    /\ Len(Prepared[2].links) = 1 /\ Prepared[2].links[1].title = <<"Minutes">>

\* the text of the whole row contains the event type (a string), or one of
\* the event types (a list), whatever the case of the letters
C12_Matches(row) ==
    LET text == Lower(Join(RowTexts(row)))
    IN  CASE spider.event_type_is = "str" -> Contains(text, Lower(spider.event_type))
          [] spider.event_type_is = "list" ->
                \E e \in Range(spider.event_type) : Contains(text, Lower(e))
          [] OTHER -> FALSE

\* C12: a National City row goes past the event-type filter iff its full row
\* text (all cells, link text included) contains, case-insensitively, the
\* configured event_type (a string) or one element of it (a list), and never
\* with an event_type of another kind: a row that does not match gives no
\* record and no detail request, and a row that matches (and has cells and a
\* start not before start_year) goes on to its records or its detail request.
C12_RowFilter ==
    (/\ pc = "yielded" /\ cb.name = "parse" /\ spider.kind = "nc"
     /\ Len(cb.resp.rows) = 1) =>
        LET row == cb.resp.rows[1]
        IN  /\ ~C12_Matches(row) =>
                  /\ Prepared = <<>>
                  /\ ~raised
            /\ (/\ C12_Matches(row) /\ row.cells # <<>>
                /\ ~TooOld(spider, NcParseStart(row))) =>
                  \/ Prepared # <<>>
                  \/ raised

\* a row titled "Potluck" was taken by the boards spider for the text of its
\* link
C12_Witness ==
    /\ pc = "yielded" /\ cb.name = "parse" /\ spider.kind = "nc"
    /\ Len(cb.resp.rows) = 1
    /\ spider.event_type_is = "list"
    /\ NcParseTitle(spider, cb.resp.rows[1]) = <<"Potluck">>
    /\ Prepared # <<>>

\* the keywords of the National City classifier in their order, and the
\* class each one gives
C13_Order == <<"commission", "advisory", "committee", "board", "council">>

C13_Class(k) ==
    CASE k = "commission" -> "Commission"
      [] k = "advisory" -> "Advisory Committee"
      [] k = "committee" -> "Committee"
      [] k = "board" -> "Board"
      [] k = "council" -> "City Council"

\* C13: the National City class of a title is that of the first keyword, in
\* the order commission, advisory, committee, board, council, that occurs in
\* the lower-cased title, wherever the keywords stand in the title.
C13_Priority ==
    (pc = "returned" /\ cb.name = "_parse_classification_from_title") =>
        LET present == SelectSeq(C13_Order,
                                 LAMBDA k : Contains(Lower(cb.arg), <<k>>))
        IN  IF present = <<>> THEN out[1] = "Not classified"
            ELSE out[1] = C13_Class(present[1])

\* "Committee ADVISORY Commission" is a commission, although the commission
\* is named last
C13_Witness ==
    /\ pc = "returned" /\ cb.name = "_parse_classification_from_title"
    /\ cb.arg = <<"Committee", " ", "ADVISORY", " ", "Commission">>
    /\ out[1] = "Commission"

\* the classes a record can have
C14_Classifications ==
    {"Commission", "Advisory Committee", "Committee", "Board", "City Council",
     "Not classified"}

\* the keywords of the classifier of each adapter
C14_Keywords(name) ==
    CASE name = "_parse_classification_from_title" ->
            {<<"commission">>, <<"advisory">>, <<"committee">>, <<"board">>, <<"council">>}
      [] name = "chula _parse_classification" ->
            {<<"commission">>, <<"committee">>, <<"board">>}
      [] name = "sd _parse_classification" ->
            {<<"council">>, <<"committee">>, <<"authority">>}
      [] name = "tulsa _parse_classification" ->
            {<<"committee">>, <<"budget", " ", "and", " ", "special", " ", "projects">>,
             <<"public", " ", "works">>,
             <<"urban", " ", "and", " ", "economic", " ", "development">>,
             <<"council">>, <<"regular">>, <<"special">>}

C14_Classifiers ==
    {"_parse_classification_from_title", "chula _parse_classification",
     "sd _parse_classification", "tulsa _parse_classification"}

\* C14: in every adapter the classifier returns a member of the fixed set of
\* classes for every text, and "Not classified" exactly when the text contains
\* none of the adapter's keywords; the Tulsa classifier tests its committee
\* terms before its council terms and leaves an empty or missing title
\* unclassified.
C14_Total ==
    (pc = "returned" /\ cb.name \in C14_Classifiers) =>
        /\ out[1] \in C14_Classifications
        /\ out[1] = "Not classified" <=>
              ~\E k \in C14_Keywords(cb.name) : Contains(Lower(cb.arg), k)
        /\ cb.name = "tulsa _parse_classification" =>
              /\ (\E k \in {<<"committee">>, <<"public", " ", "works">>} :
                     Contains(Lower(cb.arg), k)) => out[1] = "Committee"
              /\ cb.arg \in {NoneS, EmptyS} => out[1] = "Not classified"

\* the Tulsa classifier made "COUNCIL Public Works" a committee
C14_Witness ==
    /\ pc = "returned" /\ cb.name = "tulsa _parse_classification"
    /\ cb.arg = <<"COUNCIL", " ", "Public", " ", "Works">>
    /\ out[1] = "Committee"

\* a calendar date as the datetime at its midnight, NoneDT when the calendar
\* does not have it
C15_Midnight(date) ==
    IF date[2] \in 1..12 /\ date[3] \in 1..DaysIn(date[1], date[2])
    THEN <<date[1], date[2], date[3], 0, 0>> ELSE NoneDT

\* pattern n matches the text of form k of the date ("May" is a full and an
\* abbreviated month name)
C15_Matches(n, k, date) == n = k \/ (date[2] = 5 /\ {n, k} \subseteq {3, 4})

\* what the cascade finds in form j of date a followed by form k of date b:
\* each pattern sees its leftmost match only, the first pattern in the fixed
\* order whose match is a date of the calendar gives the result
C15_Expected(j, a, k, b) ==
    LET cand(n) == IF C15_Matches(n, j, a) THEN C15_Midnight(a)
                   ELSE IF C15_Matches(n, k, b) THEN C15_Midnight(b) ELSE NoneDT
        hits == {n \in 1..4 : cand(n) # NoneDT}
    IN  IF hits = {} THEN NoneDT ELSE cand(MinOf(hits))

\* C15: the four written forms of a calendar date extract to that date; the
\* patterns are tried in their fixed order and the first that yields a valid
\* date wins; the 4-digit group is the year and a slash date is read month
\* first; a text without a valid date yields none.
C15_Cascade ==
    (pc = "returned" /\ cb.name = "_parse_date") =>
        /\ ~raised
        /\ \A k \in 1..4, date \in CalendarDates :
              cb.arg = DateForm(k, date) => out[1] = C15_Midnight(date)
        /\ \A j \in 1..4, a \in CoreDates, k \in 1..4, b \in CoreDates :
              cb.arg = DateForm(j, a) \o <<" ">> \o DateForm(k, b) =>
                  out[1] = C15_Expected(j, a, k, b)
        /\ cb.arg \in NoDateTexts => out[1] = NoneDT

\* "February 29, 2024 12/31/2024" gave the slash date, the later of the two
C15_Witness ==
    /\ pc = "returned" /\ cb.name = "_parse_date"
    /\ cb.arg = DateForm(3, <<2024, 2, 29>>) \o <<" ">> \o DateForm(1, <<2024, 12, 31>>)
    /\ out[1] = <<2024, 12, 31, 0, 0>>

\* the hour of the day of the clock hour h of the period p
C16_Hour(h, p) == (h % 12) + (IF p = "PM" THEN 12 ELSE 0)

C16_At(date, hour, minute) == <<date[1], date[2], date[3], hour, minute>>

\* C16: with a valid date, 'h:mm AM' extracts to hour h mod 12 and 'h:mm PM' to
\* hour (h mod 12) + 12, with minute mm, for every h in 1..12 and mm in 0..59;
\* the 'H:MM AM/PM' form is tried before the 'H AM/PM' form, which gives
\* minute 0.
C16_Conversion ==
    (pc = "returned" /\ cb.name = "_extract_datetime") =>
        /\ \A k \in 1..4, date \in ValidCoreDates :
              StartsWith(cb.arg, DateForm(k, date) \o <<" ">>) =>
                  LET time == SubSeq(cb.arg, Len(DateForm(k, date)) + 2, Len(cb.arg))
                  IN  \A h \in 1..12, p \in Periods :
                         /\ \A m \in 0..59 :
                               time = ClockText(h, m, p) =>
                                   out[1] = C16_At(date, C16_Hour(h, p), m)
                         /\ time = HourText(h, p) =>
                               out[1] = C16_At(date, C16_Hour(h, p), 0)
        /\ cb.arg \in HourThenClockTexts => out[1][4] = 19 /\ out[1][5] = 30

\* "2/29/2024 12:05 AM" extracted to five past midnight
C16_Witness ==
    /\ pc = "returned" /\ cb.name = "_extract_datetime"
    /\ cb.arg = DateForm(1, LeapDay) \o <<" ">> \o ClockText(12, 5, "AM")
    /\ out[1] = <<2024, 2, 29, 0, 5>>

\* the clock texts of the inputs that are a time of day
C17_Usable(c) == c \notin BadClocks

\* C17: _extract_datetime returns none when the text contains no date, midnight
\* of the date when the text contains a date but no usable clock time, and the
\* date at the time when it contains both.
C17_Fallback ==
    (pc = "returned" /\ cb.name = "_extract_datetime") =>
        /\ cb.arg \in NoDateTexts => out[1] = NoneDT
        /\ \A k \in 1..4, date \in CoreDates :
              /\ cb.arg = DateForm(k, date) => out[1] = C15_Midnight(date)
              /\ StartsWith(cb.arg, DateForm(k, date) \o <<" ">>) =>
                    LET time == SubSeq(cb.arg, Len(DateForm(k, date)) + 2, Len(cb.arg))
                    IN  /\ time \in BadClocks => out[1] = C15_Midnight(date)
                        /\ date \in ValidCoreDates =>
                              \A h \in 1..12, m \in 0..59, p \in Periods :
                                  time = ClockText(h, m, p) =>
                                      out[1] = C16_At(date, C16_Hour(h, p), m)

\* "2/29/2024 13:30 PM" holds a date and no time of day, and none came back
C17_DateLost ==
    /\ pc = "returned" /\ cb.name = "_extract_datetime"
    /\ cb.arg = DateForm(1, LeapDay) \o <<" ", "13", ":", "30", " ", "PM">>
    /\ out[1] = NoneDT

\* the fallback where no time pattern matches the text: midnight of the date
C17_FallbackWithoutMatch ==
    (pc = "returned" /\ cb.name = "_extract_datetime") =>
        \A k \in 1..4, date \in CoreDates :
            \/ cb.arg = DateForm(k, date)
            \/ cb.arg = DateForm(k, date) \o <<" ", "6", ":", "30">>
            => out[1] = C15_Midnight(date)

\* what each of the cell texts yields
C18_Yields ==
    <<NoneDT,
      <<2024, 2, 29, 0, 0>>,
      <<2025, 5, 1, 0, 0>>,
      <<2024, 2, 29, 18, 30>>,
      <<2025, 5, 1, 19, 0>>,
      <<2025, 5, 1, 0, 0>>,
      NoneDT,
      NoneDT>>

C18_Yield(cell) ==
    C18_Yields[CHOOSE i \in DOMAIN StartCellTexts : cell = <<Txt(StartCellTexts[i])>>]

C18_Timed(dt) == dt # NoneDT /\ (dt[4] # 0 \/ dt[5] # 0)

\* the first element of ys that satisfies Q, NoneDT when there is none
C18_First(ys, Q(_)) ==
    IF \E i \in DOMAIN ys : Q(ys[i])
    THEN ys[CHOOSE i \in DOMAIN ys : Q(ys[i]) /\ \A j \in 1..(i - 1) : ~Q(ys[j])]
    ELSE NoneDT

\* C18: if some cell of the row yields a timestamp with a time that is not
\* midnight, _parse_start returns the timestamp of the first such cell in column
\* order, even after a cell with a date only; otherwise the timestamp of the
\* first cell that yields a date; otherwise none.
C18_TwoPass ==
    (pc = "returned" /\ cb.name = "_parse_start") =>
        LET ys == [i \in DOMAIN cb.arg.cells |-> C18_Yield(cb.arg.cells[i])]
            Dated(dt) == dt # NoneDT
        IN  out[1] = IF \E i \in DOMAIN ys : C18_Timed(ys[i])
                     THEN C18_First(ys, C18_Timed)
                     ELSE C18_First(ys, Dated)

\* the date "2/29/2024" in the first cell, "May 1, 2025 7 PM" in the second:
\* the start is that of the second cell
C18_Witness ==
    /\ pc = "returned" /\ cb.name = "_parse_start"
    /\ cb.arg = RowOfTexts(<<StartCellTexts[2], StartCellTexts[5], StartCellTexts[4]>>)
    /\ out[1] = <<2025, 5, 1, 19, 0>>

\* what each of the cell texts of a row yields as an end
C19_Yields ==
    <<NoneDT, NoneDT, <<2024, 2, 29, 18, 5>>, <<2025, 5, 1, 11, 5>>, NoneDT>>

C19_Yield(cell) ==
    C19_Yields[CHOOSE i \in DOMAIN EndCellTexts : cell = <<Txt(EndCellTexts[i])>>]

\* C19: _extract_end_datetime returns a timestamp only when the text contains a
\* date and a time that follows a range separator ('-' or 'to'), and the
\* timestamp is that date at that time in 24-hour form; it returns none when
\* there is no date or no range. _parse_end returns the result of the first
\* cell that yields one.
C19_EndFromRange ==
    /\ (pc = "returned" /\ cb.name = "_extract_end_datetime") =>
          /\ ~raised
          /\ \A d \in EndDateTexts, s \in StartTexts, r \in RangeTexts :
                cb.arg = EndText(d, s, r) =>
                    /\ out[1] # NoneDT =>
                          /\ C15_Midnight(d.date) # NoneDT /\ r.h # 0
                          /\ out[1] = C16_At(d.date, C16_Hour(r.h, r.p), 5)
                    /\ (C15_Midnight(d.date) = NoneDT \/ r.h = 0) => out[1] = NoneDT
    /\ (pc = "returned" /\ cb.name = "_parse_end") =>
          LET ys == [i \in DOMAIN cb.arg.cells |-> C19_Yield(cb.arg.cells[i])]
              Dated(dt) == dt # NoneDT
          IN  out[1] = C18_First(ys, Dated)

\* "May 1, 2025 5:30 PM to 11:05 PM" ends at 23:05 of that day
C19_Witness ==
    /\ pc = "returned" /\ cb.name = "_extract_end_datetime"
    /\ cb.arg = DateForm(3, MayDay) \o <<" ">> \o ClockText(5, 30, "PM")
                    \o <<" ", "to", " ">> \o ClockText(11, 5, "PM")
    /\ out[1] = <<2025, 5, 1, 23, 5>>

\* a row whose second and third cells hold a range: the end is that of the second
C19_RowWitness ==
    /\ pc = "returned" /\ cb.name = "_parse_end"
    /\ cb.arg = RowOfTexts(<<EndCellTexts[2], EndCellTexts[4], EndCellTexts[3]>>)
    /\ out[1] = <<2025, 5, 1, 11, 5>>

\* the values written exactly as 'YYYY/MM/DD HH:MM:SS', and the timestamp each
\* of them stands for
C20_Exact ==
    {[text |-> CvStamp("2025", "12", "17", "17", "15", "00"),
      stamp |-> <<2025, 12, 17, 17, 15>>],
     [text |-> CvStamp("2024", "02", "29", "00", "00", "59"),
      stamp |-> <<2024, 2, 29, 0, 0>>]}

\* the values the format '%Y/%m/%d %H:%M:%S' takes besides: a field of one
\* digit, a longer run of whitespace between date and time
C20_Loose ==
    {[text |-> CvStamp("2025", "1", "5", "7", "05", "00"),
      stamp |-> <<2025, 1, 5, 7, 5>>],
     [text |-> <<"2025", "/", "12", "/", "17", " ", "\n", "17", ":", "15", ":", "00">>,
      stamp |-> <<2025, 12, 17, 17, 15>>]}

\* the timestamp of a value when the values of the set good parse
C20_Parsed(good, text) ==
    IF \E v \in good : v.text = text
    THEN (CHOOSE v \in good : v.text = text).stamp
    ELSE NoneDT

\* the record of an item the meeting-type filter lets through: none when the
\* StartDate does not parse, else one with the parsed start and end
C20_Timestamps(good) ==
    /\ (pc = "returned" /\ cb.name = "chula _parse_datetime") =>
          ~raised /\ out[1] = C20_Parsed(good, cb.arg)
    /\ (pc = "returned" /\ cb.name = "chula _create_meeting") =>
          LET sp == cb.arg.sp
              item == cb.arg.item
              passes == \/ sp.allowed_meeting_types = {}
                        \/ item.MeetingType \in sp.allowed_meeting_types
                        \/ item.MeetingName \in sp.allowed_meeting_types
          IN  /\ ~raised
              /\ C20_Parsed(good, item.StartDate) = NoneDT => out[1] = <<>>
              /\ (C20_Parsed(good, item.StartDate) # NoneDT /\ passes) =>
                    /\ Len(out[1]) = 1
                    /\ out[1][1].start = C20_Parsed(good, item.StartDate)
                    /\ out[1][1].end = C20_Parsed(good, item.EndDate)

C20_LooseParsed ==
    /\ pc = "returned" /\ cb.name = "chula _parse_datetime"
    /\ cb.arg = CvStamp("2025", "1", "5", "7", "05", "00")
    /\ out[1] = <<2025, 1, 5, 7, 5>>

\* a URL that is empty, missing or a placeholder; a title that is empty or missing
C21_NoUrl(url) == url \in {EmptyS, NoneS} \/ Head(url) = "<"
C21_NoTitle(title) == title \in {EmptyS, NoneS}

\* an absolute URL as it is, a relative one appended to the base URL
C21_Href(url) ==
    IF Head(url) = "http" THEN url
    ELSE CvBaseUrl \o (IF Head(url) = "/" THEN Tail(url) ELSE url)

\* C21: every href of the links of a Chula Vista record starts with 'http'; a
\* document whose URL is empty, missing or a placeholder gives no link, nor does
\* a document with an empty title; a relative URL is resolved against the base
\* URL and an absolute URL is passed through unchanged.
C21_AbsoluteHrefs ==
    (pc = "returned" /\ cb.name = "chula _parse_links") =>
        LET docs == cb.arg.MeetingDocumentLink
            links == out[1]
            ofDocs == SelectSeq(links, LAMBDA l : l.title # <<"Video">>)
            good == {d \in Range(docs) : ~C21_NoUrl(d.Url) /\ ~C21_NoTitle(d.Title)}
        IN  /\ \A i \in DOMAIN links : Head(links[i].href) = "http"
            /\ \A i \in DOMAIN ofDocs : \E d \in good : ofDocs[i].href = C21_Href(d.Url)
            /\ \A d \in good : \E i \in DOMAIN ofDocs : ofDocs[i].href = C21_Href(d.Url)
            /\ \A i \in DOMAIN links :
                  links[i].title = <<"Video">> =>
                      /\ ~C21_NoUrl(cb.arg.VideoUrl)
                      /\ links[i].href = C21_Href(cb.arg.VideoUrl)

\* a placeholder and a document at "/filestream.ashx?DocumentId=1": one link, to
\* the document under the base URL
C21_Witness ==
    /\ pc = "returned" /\ cb.name = "chula _parse_links"
    /\ cb.arg.MeetingDocumentLink = <<CvDocPlaceholder, CvDocSlash>>
    /\ ~cb.arg.HasVideo
    /\ Len(out[1]) = 1
    /\ out[1][1].href = CvBaseUrl \o <<"filestream.ashx?DocumentId=1">>

C22_Name(item) == Strip(IF item.Location = NoneS THEN EmptyS ELSE item.Location)

\* C22: the location name is the trimmed Location and the address is the
\* Description with its line-break tags turned into ', ', its other tags
\* removed and its whitespace collapsed, so a Description of the venue name
\* followed by the street address gives an address with both; an empty address
\* is replaced by the name.
C22_Location ==
    (pc = "returned" /\ cb.name = "chula _parse_location") =>
        LET name == C22_Name(cb.arg)
            cleaned == CleanHtml(cb.arg.Description)
        IN  /\ out[1].name = name
            /\ out[1].address = IF cleaned = EmptyS THEN name ELSE cleaned
            /\ cb.arg.Description = <<"City Hall", "<br>", "276 Fourth Avenue">> =>
                  out[1].address = <<"City Hall", ",", " ", "276 Fourth Avenue">>

\* Location "City Hall" and Description "City Hall<br>276 Fourth Avenue" gave
\* the address "276 Fourth Avenue", without the venue
C22_VenueCut ==
    /\ pc = "returned" /\ cb.name = "chula _parse_location"
    /\ cb.arg.Location = <<"City Hall">>
    /\ cb.arg.Description = <<"City Hall", "<br>", "276 Fourth Avenue">>
    /\ out[1].address = <<"276 Fourth Avenue">>

\* what holds of every location: the name is the trimmed Location, and the
\* address is not empty while the name is not empty
C22_AddressNeverEmpty ==
    (pc = "returned" /\ cb.name = "chula _parse_location") =>
        /\ out[1].name = C22_Name(cb.arg)
        /\ out[1].name # EmptyS => out[1].address # EmptyS

\* C23: every record of the San Diego City Council adapter has the location
\* named 'San Diego City Administration Center' at '202 C Street, San Diego'.
C23_Location ==
    spider.kind = "sd" =>
        \A i \in DOMAIN Emitted :
            Emitted[i].location =
                [name |-> <<"San Diego City Administration Center">>,
                 address |-> <<"202 C Street, San Diego">>]

\* a record of the adapter, located at the 'San Diego County Administration Center'
C23_County ==
    /\ spider.kind = "sd" /\ Emitted # <<>>
    /\ Emitted[1].location.name = <<"San Diego County Administration Center">>
    /\ Emitted[1].location.address = <<"202 C Street, San Diego">>

\* the events of the day cells of a calendar page, in page order
C24_Events(days) == Flatten([i \in DOMAIN days |-> days[i].events])

C24_Recess(event) == Contains(Lower(event.title), <<"legislative", " ", "recess">>)

C24_Links(event) ==
    <<SdWebcasts>>
    \o (IF event.href \in {NoneS, EmptyS} THEN <<>>
        ELSE <<[href |-> event.href, title |-> <<"Meeting materials">>]>>)

C24_OnePerEvent ==
    LET kept == SelectSeq(C24_Events(cb.resp), LAMBDA e : ~C24_Recess(e))
    IN  /\ Len(Emitted) = Len(kept)
        /\ \A i \in DOMAIN Emitted :
              /\ Emitted[i].title = kept[i].title
              /\ Emitted[i].links = C24_Links(kept[i])
              /\ Emitted[i].end = NoneDT

\* C24: the San Diego parse emits exactly one record for every event of a
\* current-month day cell whose title does not contain 'legislative recess',
\* none for the others; the links of a record are the 'Webcasts' link followed
\* by one 'Meeting materials' link iff the event has an href; end is null.
C24_Events1to1 ==
    (pc = "yielded" /\ spider.kind = "sd" /\ cb.name = "parse") => C24_OnePerEvent

\* the same of the parses that did not raise
C24_WhenParsed ==
    (pc = "yielded" /\ spider.kind = "sd" /\ cb.name = "parse" /\ ~raised)
        => C24_OnePerEvent

\* a day with one event that has no time: the parse raised, no record
C24_Aborted ==
    /\ pc = "yielded" /\ spider.kind = "sd" /\ cb.name = "parse"
    /\ Len(cb.resp) = 1 /\ Len(cb.resp[1].events) = 1
    /\ cb.resp[1].events[1].title = <<"City", " ", "Council">>
    /\ cb.resp[1].events[1].time = NoneS
    /\ raised /\ Emitted = <<>>

\* the resolved start of the row is of a year before start_year
C25_Old(row) == NcParseStart(row) # NoneDT /\ NcParseStart(row)[1] < NcStartYear

\* C25: a National City row whose resolved start is of a year before start_year
\* (2022) gives no record and no detail request, so no emitted record starts
\* before start_year; the cut-off does not stop pagination: a page all of whose
\* rows were skipped for it still yields the request its pager calls for.
C25_CutOff ==
    spider.kind = "nc" =>
        /\ \A i \in DOMAIN Emitted :
              Emitted[i].start # NoneDT => Emitted[i].start[1] >= NcStartYear
        /\ (pc = "yielded" /\ cb.name = "parse") =>
              /\ \A i \in DOMAIN DetailRequests : \A j \in DOMAIN DetailRequests[i].meta :
                    LET start == DetailRequests[i].meta[j].start
                    IN  start # NoneDT => start[1] >= NcStartYear
              /\ (cb.resp.rows # <<>> /\ \A i \in DOMAIN cb.resp.rows : C25_Old(cb.resp.rows[i])) =>
                    /\ ~raised
                    /\ Emitted = <<>> /\ DetailRequests = <<>>
                    /\ (/\ Qualifying(cb.resp) # <<>>
                        /\ Qualifying(cb.resp)[1].href # EmptyS
                        /\ ~StartsWith(Qualifying(cb.resp)[1].href, <<"javascript:">>))
                          => Cardinality(ListingRequests(out)) = 1

\* a page of two rows of 2021, both skipped, and the request for the next page
C25_Witness ==
    /\ pc = "yielded" /\ cb.name = "parse" /\ spider.kind = "nc"
    /\ Len(cb.resp.rows) = 2
    /\ \A i \in DOMAIN cb.resp.rows :
          /\ MatchesEventType(spider, Join(RowTexts(cb.resp.rows[i])))
          /\ C25_Old(cb.resp.rows[i])
    /\ Emitted = <<>>
    /\ Cardinality(ListingRequests(out)) = 1

\* the start the date cell of an archive row gives, and the start the search
\* date of the request gives
C26_OfCell(cell) ==
    IF cell = <<Txt(<<"1732098600">>), Txt(<<"11", "/", "20", "/", "2024">>),
                Txt(<<" ", "10", ":", "30", " ", "AM">>)>>
    THEN <<2024, 11, 20, 10, 30>> ELSE NoneDT

C26_OfSearch(meta) ==
    IF meta.search_date = <<"06", "/", "04", "/", "2025">>
    THEN <<2025, 6, 4, 0, 0>> ELSE NoneDT

\* the fallback for the one row of a result page, a row with a date cell and a
\* meeting type
C26_Fallback(Rows(_)) ==
    (/\ pc = "yielded" /\ cb.name = "parse_archive"
     /\ Len(cb.resp) = 1 /\ Rows(cb.resp[1])
     /\ Len(cb.resp[1].cells) = 2 /\ ArchiveMeetingType(cb.resp[1]) # NoneS) =>
        LET ofCell == C26_OfCell(cb.resp[1].cells[1])
            ofSearch == C26_OfSearch(cb.req.meta)
        IN  /\ ofCell # NoneDT => Len(Emitted) = 1 /\ Emitted[1].start = ofCell
            /\ (ofCell = NoneDT /\ ofSearch # NoneDT) =>
                  Len(Emitted) = 1 /\ Emitted[1].start = ofSearch
            /\ (ofCell = NoneDT /\ ofSearch = NoneDT) => Emitted = <<>>

C26_AnyRow(row) == TRUE

\* C26: when the date/time cell of an archive row cannot be parsed and the
\* request carries a search_date, the record is emitted with its start at
\* midnight of the search date; the row is skipped only when neither the cell
\* nor the search date gives a date; when the cell parses, the search date is
\* not used.
C26_SearchDateFallback == C26_Fallback(C26_AnyRow)

\* the same of the rows whose date cell holds a text that is not a run of digits
C26_WithDateText == C26_Fallback(LAMBDA row : ArchiveDateTexts(row) # <<>>)

\* a row "Regular" whose date cell holds the hidden timestamp only, found by
\* the search for 06/04/2025, was skipped
C26_Skipped ==
    /\ pc = "yielded" /\ cb.name = "parse_archive"
    /\ Len(cb.resp) = 1 /\ Len(cb.resp[1].cells) = 2
    /\ cb.resp[1].cells[1] = <<Txt(<<"1732098600">>)>>
    /\ ArchiveMeetingType(cb.resp[1]) = <<"Regular">>
    /\ cb.req.meta.search_date = <<"06", "/", "04", "/", "2025">>
    /\ Emitted = <<>>

\* the day, counted from 2024-01-01, on which month m of year y begins
RECURSIVE C27_MonthStart(_, _)
C27_MonthStart(y, m) ==
    IF y = 2024 /\ m = 1 THEN 0
    ELSE IF m = 1 THEN C27_MonthStart(y - 1, 12) + 31
    ELSE C27_MonthStart(y, m - 1) + DaysIn(y, m - 1)

\* a text of the form MM/DD/YYYY, and the day it names
C27_Form(text) ==
    /\ Len(text) = 5 /\ text[2] = "/" /\ text[4] = "/"
    /\ Width(text[1]) = 2 /\ Num(text[1]) \in 1..12
    /\ Num(text[5]) \in {2024, 2025}
    /\ Width(text[3]) = 2 /\ Num(text[3]) \in 1..DaysIn(Num(text[5]), Num(text[1]))

C27_Day(text) == C27_MonthStart(Num(text[5]), Num(text[1])) + Num(text[3]) - 1

\* day 2, 2024-01-03, was a Wednesday
C27_Wednesday(d) == (d - 2) % 7 = 0

\* C27: start_requests yields the Granicus request first, then one archive
\* search for every Wednesday d with today - 180 days <= d <= today + 180 days,
\* in increasing order of date, each with its own date as search_date in the
\* form MM/DD/YYYY; none for another day, none twice.
C27_Wednesdays ==
    (pc = "returned" /\ cb.name = "tulsa start_requests") =>
        LET today == cb.arg
            searches == Tail(out[1])
            wednesdays == {d \in (today - 180)..(today + 180) : C27_Wednesday(d)}
        IN  /\ out[1][1].callback = "parse_granicus"
            /\ Len(searches) = Cardinality(wednesdays)
            /\ \A i \in DOMAIN searches :
                  /\ searches[i].callback = "parse_archive"
                  /\ C27_Form(searches[i].meta.search_date)
                  /\ C27_Day(searches[i].meta.search_date) \in wednesdays
                  /\ Contains(searches[i].url, searches[i].meta.search_date)
            /\ \A i \in DOMAIN searches : \A j \in DOMAIN searches :
                  i < j => C27_Day(searches[i].meta.search_date)
                             < C27_Day(searches[j].meta.search_date)

\* started on 2024-07-01: 52 searches, the first for 01/03/2024, the last for
\* 12/25/2024
C27_Witness ==
    /\ pc = "returned" /\ cb.name = "tulsa start_requests"
    /\ cb.arg = 182
    /\ Len(out[1]) = 53
    /\ out[1][2].meta.search_date = <<"01", "/", "03", "/", "2024">>
    /\ out[1][53].meta.search_date = <<"12", "/", "25", "/", "2024">>

\* the number a run of decimal digits writes
RECURSIVE C28_Value(_)
C28_Value(digits) ==
    IF digits = <<>> THEN 0
    ELSE 10 * C28_Value(SubSeq(digits, 1, Len(digits) - 1)) + Num(digits[Len(digits)])

\* daylight time in Los Angeles, 2024..2027, in days counted from 2024-01-01:
\* 2024-03-10..2024-11-03, 2025-03-09..2025-11-02, 2026-03-08..2026-11-01,
\* 2027-03-14..2027-11-07, from 10:00 UTC of the first to 09:00 UTC of the last
C28_Daylight(utc) ==
    \E span \in {<<69, 307>>, <<433, 671>>, <<797, 1035>>, <<1168, 1406>>} :
        /\ utc >= span[1] * 86400 + 10 * 3600
        /\ utc < span[2] * 86400 + 9 * 3600

\* the local date and time, <<year, month, day, seconds of the day>>, at a
\* timestamp
C28_LocalOf(ts) ==
    LET utc == ts - 19723 * 86400
        local == IF C28_Daylight(utc) THEN utc - 7 * 3600 ELSE utc - 8 * 3600
    IN  CivilFrom(2024, 1, local \div 86400) \o <<local % 86400>>

\* the timestamp of a request of start_requests
C28_Timestamp(request) ==
    C28_Value(SubSeq(request.url, Len(SdBaseUrl) + 2, Len(request.url)))

\* C28: start_requests yields exactly two requests: the first for the current
\* calendar month, the second for the month right after it (January of the
\* next year after December), each with the timestamp of 01:00 local time on
\* the first day of its month.
C28_TwoMonths ==
    (pc = "returned" /\ cb.name = "san diego start_requests") =>
        LET y == cb.arg[1]
            m == cb.arg[2]
            following == IF m = 12 THEN <<y + 1, 1>> ELSE <<y, m + 1>>
        IN  /\ Len(out[1]) = 2
            /\ \A i \in 1..2 :
                  /\ out[1][i].callback = "parse"
                  /\ StartsWith(out[1][i].url, SdBaseUrl \o <<"?calendar_timestamp=">>)
                  /\ \A k \in (Len(SdBaseUrl) + 2)..Len(out[1][i].url) : out[1][i].url[k] \in DecimalSet
            /\ C28_LocalOf(C28_Timestamp(out[1][1])) = <<y, m, 1, 3600>>
            /\ C28_LocalOf(C28_Timestamp(out[1][2])) = <<following[1], following[2], 1, 3600>>

\* started on 2024-12-31: the second request is for 2025-01-01 01:00 PST,
\* 1735722000
C28_Witness ==
    /\ pc = "returned" /\ cb.name = "san diego start_requests"
    /\ cb.arg = <<2024, 12, 31>>
    /\ C28_Timestamp(out[1][2]) = 1735722000

\* started in October 2026: the second request is for 2026-11-01, the day
\* daylight time ends, 01:00 standard time, 1793523600
C28_Ambiguous ==
    /\ pc = "returned" /\ cb.name = "san diego start_requests"
    /\ cb.arg = <<2026, 10, 15>>
    /\ C28_Timestamp(out[1][2]) = 1793523600

\* the configurations of both spider modules, and the class create_spiders
\* makes of a configuration
C29_Configs ==
    UNION {{<<family, k>> : k \in DOMAIN SpiderConfigs(family)} : family \in Families}

C29_ClassOf(family, config) ==
    [class_name |-> config.class_name, family |-> family,
     dct |-> {key \in config.keys : key # "class_name"}]

\* C29: after a call of create_spiders the namespace holds exactly one class
\* for each configured class_name; the call keeps every class that was there
\* and adds, for each configured class_name that was absent, one class with
\* every key of its configuration but class_name as an attribute; the
\* configured spider names are pairwise distinct.
C29_Idempotent ==
    /\ [](/\ \A c \in namespace : \A d \in namespace :
                c.class_name = d.class_name => c = d
          /\ decl.class_name = "create_spiders" =>
                /\ error = NoError
                /\ \A k \in DOMAIN SpiderConfigs(decl.family) :
                      \E c \in namespace :
                          c.class_name = SpiderConfigs(decl.family)[k].class_name
          /\ \A p \in C29_Configs : \A q \in C29_Configs :
                p # q => SpiderConfigs(p[1])[p[2]].name # SpiderConfigs(q[1])[q[2]].name)
    /\ [][decl'.class_name = "create_spiders" =>
            namespace' = namespace \cup
                {C29_ClassOf(decl'.family, SpiderConfigs(decl'.family)[k]) :
                    k \in {j \in DOMAIN SpiderConfigs(decl'.family) :
                             \A c \in namespace :
                                 c.class_name # SpiderConfigs(decl'.family)[j].class_name}}]_vars

\* create_spiders ran in a namespace that held a class named
\* SandieCityCouncilSpider with four attributes: that class is kept, and the
\* class of the other configuration is made
C29_Witness ==
    /\ decl.class_name = "create_spiders" /\ decl.family = "nc"
    /\ [class_name |-> "SandieCityCouncilSpider", family |-> "nc",
        dct |-> {"name", "agency", "event_type", "meeting_view_id"}] \in namespace
    /\ [class_name |-> "SandieBoardsCommissionsSpider", family |-> "nc",
        dct |-> {"name", "agency", "event_type"}] \in namespace

\* C30: the URL chosen as the detail page of a row is not the href of a link
\* of any record of that row: a link that _get_detail_url can choose gives no
\* link in _parse_links, in any letter case and with or without the host;
\* each link of a record has the keys href and title and no other.
C30_DetailNotALink ==
    (pc = "returned" /\ cb.name = "parse: row") =>
        /\ \A i \in DOMAIN out[1].meeting_data_list :
              \A k \in DOMAIN out[1].meeting_data_list[i].links :
                  /\ out[1].meeting_data_list[i].links[k].href # out[1].detail_url
                  /\ DOMAIN out[1].meeting_data_list[i].links[k] = {"href", "title"}
                  /\ ~Contains(Lower(out[1].meeting_data_list[i].links[k].href),
                               <<"/", "components", "/", "calendar", "/">>)
        /\ \A n \in Range(RowAnchors(cb.arg.row)) :
              GetDetailUrlFrom(<<n>>) # NoneS =>
                  \A l \in Range(NcParseLinks(cb.arg.row)) :
                      l.href # GetDetailUrlFrom(<<n>>)

\* a row of the boards spider with a link to its calendar page and a link to
\* the agenda of the Planning Commission: the first record of the row carries
\* the agenda, the second no link, none the calendar page
C30_Witness ==
    /\ pc = "returned" /\ cb.name = "parse: row"
    /\ out[1].detail_url = NcHost \o NcEventPath
    /\ Len(out[1].meeting_data_list) = 2
    /\ out[1].meeting_data_list[1].links =
          <<[href |-> NcHost \o NcAgendaHref, title |-> <<"Agenda">>]>>
    /\ out[1].meeting_data_list[2].links = <<>>

====
